---- MODULE Spec2Model ----
(***************************************************************************)
(* dot-ai: generation of provider configuration files from the .ai         *)
(* directory (src/src/generator.ts) and migration of provider files into   *)
(* the .ai directory (src/src/migrator.ts).                                *)
(*                                                                         *)
(* Text is a sequence of one-character strings, so that the regular        *)
(* expressions, trims and splits of the code are computed character by     *)
(* character.                                                              *)
(***************************************************************************)
EXTENDS Integers, Sequences, FiniteSets, TLC

VARIABLES
    fmIn,       \* parseFrontmatter: the content handed to it
    fmOut,      \* parseFrontmatter: its result ({frontmatter, content})
    fmRule,     \* generateFiles: the cursor rule payload built from fmOut
    fmPc,       \* "input" -> "parsed" -> "generated"
    mcpConfig,  \* config.mcp handed to generateFiles
    mcpGen,     \* the three server-list payloads generateFiles returned
    mcpDisk,    \* .mcp.json, .gemini/settings.json and opencode.json on disk
    mcpOut,     \* the result of extractAllMCPConfigs ({merged, duplicates})
    mcpPc,      \* "config" -> "generated" -> "files" -> "extracted"
    disk,       \* the working directory: .ai and the provider files
    pre,        \* the working directory before the last operation
    lastOp,     \* the last operation run in the working directory
    outcome,    \* "ok", or the message of the error the last operation raised
    genConfig,  \* the AIConfig the last runGeneration read
    genFiles    \* the GeneratedFiles the last runGeneration built

fmVars == <<fmIn, fmOut, fmRule, fmPc>>

mcpVars == <<mcpConfig, mcpGen, mcpDisk, mcpOut, mcpPc>>

fsVars == <<disk, pre, lastOp, outcome, genConfig, genFiles>>

vars == <<fmIn, fmOut, fmRule, fmPc, mcpConfig, mcpGen, mcpDisk, mcpOut, mcpPc,
          disk, pre, lastOp, outcome, genConfig, genFiles>>

(***************************************************************************)
(* Bounds of the model.                                                    *)
(***************************************************************************)
MaxLines == 5        \* lines of a rule file drawn from LineSet
MaxValTokens == 3    \* tokens a single metadata value is made of
MaxArgs == 2         \* args of a canonical server

(***************************************************************************)
(* Strings.                                                                *)
(***************************************************************************)
NL == "\n"
DQ == "\""
SQ == "'"

Whitespace == {" ", "\t", "\n", "\r"}
Digits == {"0", "1", "2", "3", "4", "5", "6", "7", "8", "9"}

Marker == <<"-", "-", "-">>

\* the sequences over S of length at most n
SeqsUpTo(S, n) == UNION {[1..k -> S] : k \in 0..n}

SetMin(S) == CHOOSE m \in S : \A o \in S : m <= o

\* s.slice(from - 1) with 1-based from
Drop(s, n) == SubSeq(s, n + 1, Len(s))

StartsWithAt(s, pat, i) ==
    /\ i >= 1
    /\ i + Len(pat) - 1 <= Len(s)
    /\ \A k \in 1..Len(pat) : s[i + k - 1] = pat[k]

StartsWith(s, pat) == StartsWithAt(s, pat, 1)

\* String.prototype.indexOf, 1-based; 0 when pat does not occur at or after from
IndexOfFrom(s, pat, from) ==
    LET hits == {i \in from..(Len(s) - Len(pat) + 1) : StartsWithAt(s, pat, i)}
    IN  IF hits = {} THEN 0 ELSE SetMin(hits)

IndexOf(s, pat) == IndexOfFrom(s, pat, 1)

RECURSIVE TrimStart(_)
TrimStart(s) ==
    IF s # <<>> /\ Head(s) \in Whitespace THEN TrimStart(Tail(s)) ELSE s

RECURSIVE TrimEnd(_)
TrimEnd(s) ==
    IF s # <<>> /\ s[Len(s)] \in Whitespace
    THEN TrimEnd(SubSeq(s, 1, Len(s) - 1))
    ELSE s

\* String.prototype.trim
Trim(s) == TrimEnd(TrimStart(s))

\* String.prototype.split("\n"): always at least one piece
RECURSIVE SplitLines(_)
SplitLines(s) ==
    LET i == IndexOf(s, <<NL>>)
    IN  IF i = 0 THEN <<s>>
        ELSE <<SubSeq(s, 1, i - 1)>> \o SplitLines(Drop(s, i))

\* Array.prototype.join(sep)
RECURSIVE Join(_, _)
Join(parts, sep) ==
    IF parts = <<>> THEN <<>>
    ELSE IF Len(parts) = 1 THEN parts[1]
    ELSE parts[1] \o sep \o Join(Tail(parts), sep)

\* string concatenation (+=) of the parts in order
RECURSIVE Flatten(_)
Flatten(parts) == IF parts = <<>> THEN <<>> ELSE Head(parts) \o Flatten(Tail(parts))

\* String.prototype.replace(pat, rep) with a string pattern: first occurrence only
ReplaceFirst(s, pat, rep) ==
    LET i == IndexOf(s, pat)
    IN  IF i = 0 THEN s
        ELSE SubSeq(s, 1, i - 1) \o rep \o Drop(s, i + Len(pat) - 1)

(***************************************************************************)
(* JavaScript numbers, as far as parseInt/parseFloat of decimal literals   *)
(* and JSON.stringify need them: an integer part and the fraction digits   *)
(* without trailing zeros (1.50 and 1.5 are the same number, 1.0 and 1     *)
(* too).                                                                   *)
(***************************************************************************)
DigitVal(c) ==
    CASE c = "0" -> 0 [] c = "1" -> 1 [] c = "2" -> 2 [] c = "3" -> 3
      [] c = "4" -> 4 [] c = "5" -> 5 [] c = "6" -> 6 [] c = "7" -> 7
      [] c = "8" -> 8 [] c = "9" -> 9

DigitChar(n) ==
    CASE n = 0 -> "0" [] n = 1 -> "1" [] n = 2 -> "2" [] n = 3 -> "3"
      [] n = 4 -> "4" [] n = 5 -> "5" [] n = 6 -> "6" [] n = 7 -> "7"
      [] n = 8 -> "8" [] n = 9 -> "9"

RECURSIVE DecimalValue(_)
DecimalValue(ds) ==
    IF ds = <<>> THEN 0
    ELSE 10 * DecimalValue(SubSeq(ds, 1, Len(ds) - 1)) + DigitVal(ds[Len(ds)])

RECURSIVE StripTrailingZeros(_)
StripTrailingZeros(ds) ==
    IF ds # <<>> /\ ds[Len(ds)] = "0"
    THEN StripTrailingZeros(SubSeq(ds, 1, Len(ds) - 1))
    ELSE ds

RECURSIVE NatToString(_)
NatToString(n) ==
    IF n < 10 THEN <<DigitChar(n)>>
    ELSE NatToString(n \div 10) \o <<DigitChar(n % 10)>>

\* /^\d+$/.test(v)
IsAllDigits(v) == v # <<>> /\ \A i \in 1..Len(v) : v[i] \in Digits

\* /^\d+\.\d+$/.test(v)
IsDigitDotDigit(v) ==
    \E d \in 2..(Len(v) - 1) :
        /\ v[d] = "."
        /\ \A i \in 1..Len(v) : i # d => v[i] \in Digits

\* parseInt(v, 10) of an all-digit string
ParseInt(v) == [t |-> "number", ip |-> DecimalValue(v), fp |-> <<>>]

\* parseFloat(v) of a digit-dot-digit string
ParseFloat(v) ==
    LET d == IndexOf(v, <<".">>)
    IN  [t |-> "number",
         ip |-> DecimalValue(SubSeq(v, 1, d - 1)),
         fp |-> StripTrailingZeros(Drop(v, d))]

\* JSON.stringify of a boolean or a number
JSONStringifyScalar(val) ==
    IF val.t = "boolean"
    THEN IF val.b THEN <<"t", "r", "u", "e">> ELSE <<"f", "a", "l", "s", "e">>
    ELSE NatToString(val.ip) \o (IF val.fp = <<>> THEN <<>> ELSE <<".">> \o val.fp)

(***************************************************************************)
(* JavaScript objects with string keys, as the ordered list of their own   *)
(* entries (Object.entries/Object.keys order): integer-like keys first in  *)
(* ascending order, then the other keys in insertion order.                *)
(***************************************************************************)
EmptyObj == <<>>

ObjKeys(obj) == {obj[i].key : i \in 1..Len(obj)}

ObjHas(obj, k) == k \in ObjKeys(obj)

ObjGet(obj, k) == obj[CHOOSE i \in 1..Len(obj) : obj[i].key = k].value

\* a canonical array index: "0", or digits without a leading zero
IsIndexKey(k) == IsAllDigits(k) /\ (Len(k) = 1 \/ k[1] # "0")

\* obj[k] = v
ObjSet(obj, k, v) ==
    LET e == [key |-> k, value |-> v]
    IN  IF ObjHas(obj, k)
        THEN [i \in 1..Len(obj) |-> IF obj[i].key = k THEN e ELSE obj[i]]
        ELSE IF IsIndexKey(k)
        THEN LET before == {i \in 1..Len(obj) :
                               /\ IsIndexKey(obj[i].key)
                               /\ DecimalValue(obj[i].key) < DecimalValue(k)}
                 n == Cardinality(before)
             IN  SubSeq(obj, 1, n) \o <<e>> \o Drop(obj, n)
        ELSE Append(obj, e)

(***************************************************************************)
(* parseFrontmatter (generator.ts).                                        *)
(***************************************************************************)
NoMatch == [matched |-> FALSE, g1 |-> <<>>, g2 |-> <<>>]

\* frontmatterRegex without its ^ anchor: the block may open anywhere
frontmatterRegexUnanchored(content) ==
    LET i == IndexOf(content, Marker \o <<NL>>)
        j == IF i = 0 THEN 0
             ELSE IndexOfFrom(content, <<NL>> \o Marker \o <<NL>>, i + 4)
    IN  IF j = 0 THEN NoMatch
        ELSE [matched |-> TRUE,
              g1 |-> SubSeq(content, i + 4, j - 1),
              g2 |-> Drop(content, j + 4)]

\* content.match(/^---\n([\s\S]*?)\n---\n([\s\S]*)$/): the lazy group ends at the
\* first "\n---\n" at or after the end of the opening line
frontmatterRegex(content) ==
    IF ~StartsWith(content, Marker \o <<NL>>) THEN NoMatch
    ELSE LET j == IndexOfFrom(content, <<NL>> \o Marker \o <<NL>>, 5)
         IN  IF j = 0 THEN NoMatch
             ELSE [matched |-> TRUE,
                   g1 |-> SubSeq(content, 5, j - 1),
                   g2 |-> Drop(content, j + 4)]

\* content.match(/^---\n---\n([\s\S]*)$/); g1 is the only group
emptyFrontmatterRegex(content) ==
    IF StartsWith(content, Marker \o <<NL>> \o Marker \o <<NL>>)
    THEN [matched |-> TRUE, g1 |-> Drop(content, 8), g2 |-> <<>>]
    ELSE NoMatch

\* value.replace(/^['"]|['"]$/g, ""): a quote at the start is removed, and a quote
\* at the end of what is left is removed
RemoveQuotes(value) ==
    LET a == IF value # <<>> /\ value[1] \in {DQ, SQ} THEN Tail(value) ELSE value
    IN  IF a # <<>> /\ a[Len(a)] \in {DQ, SQ} THEN SubSeq(a, 1, Len(a) - 1) ELSE a

\* TypedValue with /^\d+/ for /^\d+$/: parseInt of any value that starts with digits
RECURSIVE LeadingDigits(_)
LeadingDigits(v) ==
    IF v # <<>> /\ Head(v) \in Digits THEN <<Head(v)>> \o LeadingDigits(Tail(v)) ELSE <<>>

TypedValueDigitPrefix(value) ==
    IF value = <<"t", "r", "u", "e">> THEN [t |-> "boolean", b |-> TRUE]
    ELSE IF value = <<"f", "a", "l", "s", "e">> THEN [t |-> "boolean", b |-> FALSE]
    ELSE IF LeadingDigits(value) # <<>> THEN ParseInt(LeadingDigits(value))
    ELSE IF IsDigitDotDigit(value) THEN ParseFloat(value)
    ELSE [t |-> "string", s |-> RemoveQuotes(value)]

\* "Handle basic types": the if/else-if chain on the trimmed value
TypedValue(value) ==
    IF value = <<"t", "r", "u", "e">> THEN [t |-> "boolean", b |-> TRUE]
    ELSE IF value = <<"f", "a", "l", "s", "e">> THEN [t |-> "boolean", b |-> FALSE]
    ELSE IF IsAllDigits(value) THEN ParseInt(value)
    ELSE IF IsDigitDotDigit(value) THEN ParseFloat(value)
    ELSE [t |-> "string", s |-> RemoveQuotes(value)]

\* one iteration of the loop over the lines of the block
ParseLine(frontmatter, line) ==
    LET trimmed == Trim(line)
        colonIndex == IndexOf(trimmed, <<":">>)
    IN  IF trimmed = <<>> \/ StartsWith(trimmed, <<"#">>) THEN frontmatter
        ELSE IF colonIndex = 0 THEN frontmatter
        ELSE LET key == Trim(SubSeq(trimmed, 1, colonIndex - 1))
                 value == Trim(Drop(trimmed, colonIndex))
             IN  ObjSet(frontmatter, key, TypedValue(value))

RECURSIVE ParseLines(_, _)
ParseLines(frontmatter, lines) ==
    IF lines = <<>> THEN frontmatter
    ELSE ParseLines(ParseLine(frontmatter, Head(lines)), Tail(lines))

parseFrontmatter(content) ==
    LET match == frontmatterRegex(content)
        emptyMatch == emptyFrontmatterRegex(content)
    IN  IF ~match.matched /\ ~emptyMatch.matched
        THEN [frontmatter |-> EmptyObj, content |-> content]
        ELSE LET frontmatterYaml == IF match.matched THEN match.g1 ELSE <<>>
                 bodyContent == IF match.matched THEN match.g2 ELSE emptyMatch.g1
             IN  IF Trim(frontmatterYaml) = <<>>
                 THEN [frontmatter |-> EmptyObj, content |-> bodyContent]
                 ELSE [frontmatter |-> ParseLines(EmptyObj, SplitLines(frontmatterYaml)),
                       content |-> bodyContent]

(***************************************************************************)
(* generateFiles (generator.ts): the cursor rule payload of one rule.      *)
(***************************************************************************)
\* `${key}: ${typeof value === "string" ? value : JSON.stringify(value)}`
FrontmatterLine(e) ==
    e.key \o <<":", " ">> \o
        (IF e.value.t = "string" THEN e.value.s ELSE JSONStringifyScalar(e.value))

frontmatterString(frontmatter) ==
    IF Len(frontmatter) > 0
    THEN Marker \o <<NL>> \o
         Join([i \in 1..Len(frontmatter) |-> FrontmatterLine(frontmatter[i])], <<NL>>) \o
         <<NL>> \o Marker \o <<NL>>
    ELSE <<>>

CursorRuleContent(rule) == frontmatterString(rule.frontmatter) \o rule.content

(***************************************************************************)
(* JSON files. A file is absent, holds text that JSON.parse rejects, or    *)
(* holds a JSON value; JSON.stringify followed by JSON.parse gives back    *)
(* the value written (the values written here hold no undefined).          *)
(***************************************************************************)
Absent == [kind |-> "absent"]
Malformed == [kind |-> "malformed"]
JSONFile(v) == [kind |-> "json", value |-> v]

\* Bun.file(path).exists()
Exists(file) == file.kind # "absent"

\* JSON objects with a fixed key order are functions here: the order of the
\* keys of a server list only decides the order of the duplicates list
HasKey(obj, k) == k \in DOMAIN obj

\* names that every plain object inherits from Object.prototype
ObjectPrototypeNames == {"constructor", "toString", "valueOf", "hasOwnProperty"}

\* if (allServers[name]): an own entry (an object) or an inherited member
Truthy(allServers, name) == HasKey(allServers, name) \/ name \in ObjectPrototypeNames

\* the keys of a server list in iteration order
SetToSeq(S) == CHOOSE s \in [1..Cardinality(S) -> S] : \A i, j \in 1..Cardinality(S) : i # j => s[i] # s[j]

Entries(obj) == SetToSeq(DOMAIN obj)

\* allServers[name] = server
Put(allServers, name, server) ==
    [n \in (DOMAIN allServers) \cup {name} |-> IF n = name THEN server ELSE allServers[n]]

\* Object.assign(allServers, src)
ObjectAssign(allServers, src) ==
    [n \in (DOMAIN allServers) \cup (DOMAIN src) |-> IF n \in DOMAIN src THEN src[n] ELSE allServers[n]]

\* the duplicates list returned as pushed, without new Set
DedupNone(s) == s

\* [...new Set(duplicates)]: first occurrences, in order
RECURSIVE Dedup(_)
Dedup(s) ==
    IF s = <<>> THEN <<>>
    ELSE LET r == Dedup(SubSeq(s, 1, Len(s) - 1))
             x == s[Len(s)]
         IN  IF \E i \in 1..Len(r) : r[i] = x THEN r ELSE Append(r, x)

(***************************************************************************)
(* generateFiles (generator.ts): the server-list payloads.                 *)
(***************************************************************************)
\* ToOpenCode with command: [serverConfig.command], the args left out
ToOpenCodeNoArgs(serverConfig) ==
    IF HasKey(serverConfig, "env") /\ DOMAIN serverConfig.env # {}
    THEN [type |-> "local", command |-> <<serverConfig.command>>,
          environment |-> serverConfig.env]
    ELSE [type |-> "local", command |-> <<serverConfig.command>>]

\* ToOpenCode with environment: serverConfig.env whenever env is there, empty or not
ToOpenCodeAlwaysEnv(serverConfig) ==
    LET command == <<serverConfig.command>> \o
                       (IF HasKey(serverConfig, "args") THEN serverConfig.args ELSE <<>>)
    IN  IF HasKey(serverConfig, "env")
        THEN [type |-> "local", command |-> command, environment |-> serverConfig.env]
        ELSE [type |-> "local", command |-> command]

\* the OpenCode record of one canonical server
ToOpenCode(serverConfig) ==
    LET command == <<serverConfig.command>> \o
                       (IF HasKey(serverConfig, "args") THEN serverConfig.args ELSE <<>>)
    IN  IF HasKey(serverConfig, "env") /\ DOMAIN serverConfig.env # {}
        THEN [type |-> "local", command |-> command, environment |-> serverConfig.env]
        ELSE [type |-> "local", command |-> command]

openCodeMcpServers(mcpServers) == [n \in DOMAIN mcpServers |-> ToOpenCode(mcpServers[n])]

\* the values of ".mcp.json", ".gemini/settings.json" and "opencode.json"
GeneratedMCP(mcp) ==
    [mcp |-> mcp,
     geminiSettings |-> [mcpServers |-> mcp.mcpServers],
     opencode |-> [mcp |-> openCodeMcpServers(mcp.mcpServers)]]

(***************************************************************************)
(* extractAllMCPConfigs (migrator.ts).                                     *)
(***************************************************************************)
\* FromOpenCode with args: command.slice(0), the executable kept among the args
FromOpenCodeWholeArray(openCodeServer) ==
    LET has == HasKey(openCodeServer, "command")
    IN  [type |-> "stdio",
         command |-> IF has /\ openCodeServer.command # <<>>
                     THEN openCodeServer.command[1] ELSE "",
         args |-> IF has THEN openCodeServer.command ELSE <<>>,
         env |-> IF HasKey(openCodeServer, "environment")
                 THEN openCodeServer.environment ELSE <<>>]

\* "Convert OpenCode format back to standard format"
\* FromOpenCode with env: {} whatever the record's environment
FromOpenCodeNoEnv(openCodeServer) ==
    LET has == HasKey(openCodeServer, "command")
    IN  [type |-> "stdio",
         command |-> IF has /\ openCodeServer.command # <<>>
                     THEN openCodeServer.command[1] ELSE "",
         args |-> IF has /\ openCodeServer.command # <<>>
                  THEN Tail(openCodeServer.command) ELSE <<>>,
         env |-> <<>>]

FromOpenCode(openCodeServer) ==
    LET has == HasKey(openCodeServer, "command")
    IN  [type |-> "stdio",
         command |-> IF has /\ openCodeServer.command # <<>>
                     THEN openCodeServer.command[1] ELSE "",
         args |-> IF has /\ openCodeServer.command # <<>>
                  THEN Tail(openCodeServer.command) ELSE <<>>,
         env |-> IF HasKey(openCodeServer, "environment")
                 THEN openCodeServer.environment ELSE <<>>]

\* the servers a source file contributes: none when the file is absent, does not
\* parse (the catch block) or lacks the key
SourceServers(file, key) ==
    IF file.kind = "json" /\ HasKey(file.value, key) THEN file.value[key] ELSE <<>>

\* for (const [name, server] of Object.entries(...)) { if (allServers[name])
\* duplicates.push(name); allServers[name] = server }
RECURSIVE MergeEntries(_, _, _)
MergeEntries(acc, names, src) ==
    IF names = <<>> THEN acc
    ELSE LET name == Head(names)
         IN  MergeEntries(
                 [allServers |-> Put(acc.allServers, name, src[name]),
                  duplicates |-> IF Truthy(acc.allServers, name)
                                 THEN Append(acc.duplicates, name)
                                 ELSE acc.duplicates],
                 Tail(names), src)

\* extractAllMCPConfigs with one try block around the three loads: a file that
\* does not parse ends the merge with what was loaded before it
extractAllMCPConfigsOneTry(mcpFile, geminiFile, opencodeFile) ==
    LET stop1 == mcpFile.kind = "malformed"
        stop2 == stop1 \/ geminiFile.kind = "malformed"
        s1 == SourceServers(mcpFile, "mcpServers")
        s2 == IF stop1 THEN <<>> ELSE SourceServers(geminiFile, "mcpServers")
        oc == IF stop2 THEN <<>> ELSE SourceServers(opencodeFile, "mcp")
        s3 == [n \in DOMAIN oc |-> FromOpenCode(oc[n])]
        a1 == [allServers |-> ObjectAssign(<<>>, s1), duplicates |-> <<>>]
        a2 == MergeEntries(a1, Entries(s2), s2)
        a3 == MergeEntries(a2, Entries(s3), s3)
    IN  [merged |-> [mcpServers |-> a3.allServers],
         duplicates |-> Dedup(a3.duplicates)]

extractAllMCPConfigs(mcpFile, geminiFile, opencodeFile) ==
    LET s1 == SourceServers(mcpFile, "mcpServers")
        s2 == SourceServers(geminiFile, "mcpServers")
        oc == SourceServers(opencodeFile, "mcp")
        s3 == [n \in DOMAIN oc |-> FromOpenCode(oc[n])]
        a1 == [allServers |-> ObjectAssign(<<>>, s1), duplicates |-> <<>>]
        a2 == MergeEntries(a1, Entries(s2), s2)
        a3 == MergeEntries(a2, Entries(s3), s3)
    IN  [merged |-> [mcpServers |-> a3.allServers],
         duplicates |-> Dedup(a3.duplicates)]

(***************************************************************************)
(* The working directory. Text files are absent or hold text; a directory  *)
(* is the mapping from the names of its files to their contents.           *)
(***************************************************************************)
TextFile(s) == [kind |-> "text", text |-> s]

EndsWith(s, suffix) == StartsWithAt(s, suffix, Len(s) - Len(suffix) + 1)

ExtMd == <<".", "m", "d">>
ExtMdc == <<".", "m", "d", "c">>

\* new Bun.Glob("*" + ext).scan({cwd}): the matching names, in scan order
GlobScan(dir, ext) == SetToSeq({n \in DOMAIN dir : EndsWith(n, ext)})

(***************************************************************************)
(* readAIConfig (generator.ts).                                            *)
(***************************************************************************)
\* readAIConfig with one try block around the four reads: an mcp.json that does
\* not parse leaves every field at its default
readAIConfigOneTry(d) ==
    LET ruleFiles == IF d.aiRulesDir THEN GlobScan(d.aiRules, ExtMd) ELSE <<>>
        commandFiles == IF d.aiCommandsDir THEN GlobScan(d.aiCommands, ExtMd) ELSE <<>>
    IN  IF d.aiMcp.kind = "malformed"
        THEN [instructions |-> <<>>, rules |-> <<>>, commands |-> <<>>,
              mcp |-> [mcpServers |-> <<>>]]
        ELSE [instructions |-> IF Exists(d.aiInstructions) THEN d.aiInstructions.text ELSE <<>>,
              rules |-> [i \in 1..Len(ruleFiles) |->
                            LET parsed == parseFrontmatter(d.aiRules[ruleFiles[i]])
                            IN  [frontmatter |-> parsed.frontmatter,
                                 content |-> parsed.content,
                                 filename |-> ruleFiles[i]]],
              commands |-> [i \in 1..Len(commandFiles) |->
                               ReplaceFirst(commandFiles[i], ExtMd, <<>>)],
              mcp |-> IF d.aiMcp.kind = "json" THEN d.aiMcp.value ELSE [mcpServers |-> <<>>]]

readAIConfig(d) ==
    LET ruleFiles == IF d.aiRulesDir THEN GlobScan(d.aiRules, ExtMd) ELSE <<>>
        commandFiles == IF d.aiCommandsDir THEN GlobScan(d.aiCommands, ExtMd) ELSE <<>>
    IN  [instructions |-> IF Exists(d.aiInstructions) THEN d.aiInstructions.text ELSE <<>>,
         rules |-> [i \in 1..Len(ruleFiles) |->
                       LET parsed == parseFrontmatter(d.aiRules[ruleFiles[i]])
                       IN  [frontmatter |-> parsed.frontmatter,
                            content |-> parsed.content,
                            filename |-> ruleFiles[i]]],
         commands |-> [i \in 1..Len(commandFiles) |->
                          ReplaceFirst(commandFiles[i], ExtMd, <<>>)],
         \* mcp = await mcpFile.json(): whatever JSON value the file holds
         mcp |-> IF d.aiMcp.kind = "json" THEN d.aiMcp.value ELSE [mcpServers |-> <<>>]]

(***************************************************************************)
(* generateInstructions, generateFiles, writeGeneratedFiles, runGeneration *)
(* (generator.ts).                                                         *)
(***************************************************************************)
CommandsHeader ==
    <<NL, "#", "#", " ", "A", "v", "a", "i", "l", "a", "b", "l", "e", " ",
      "C", "o", "m", "m", "a", "n", "d", "s", NL, NL>>

\* generateInstructions adding the commands section whatever config.commands holds
generateInstructionsAlwaysHeader(config) ==
    LET withRules ==
            IF Len(config.rules) > 0
            THEN config.instructions \o <<NL, NL>> \o
                 Flatten([i \in 1..Len(config.rules) |-> config.rules[i].content \o <<NL, NL>>])
            ELSE config.instructions
        withCommands ==
            withRules \o CommandsHeader \o
            Flatten([i \in 1..Len(config.commands) |->
                        <<"-", " ">> \o config.commands[i] \o <<NL>>])
    IN  Trim(withCommands)

\* generateInstructions returning result instead of result.trim()
generateInstructionsNoTrim(config) ==
    LET withRules ==
            IF Len(config.rules) > 0
            THEN config.instructions \o <<NL, NL>> \o
                 Flatten([i \in 1..Len(config.rules) |-> config.rules[i].content \o <<NL, NL>>])
            ELSE config.instructions
    IN  IF Len(config.commands) > 0
        THEN withRules \o CommandsHeader \o
             Flatten([i \in 1..Len(config.commands) |->
                         <<"-", " ">> \o config.commands[i] \o <<NL>>])
        ELSE withRules

generateInstructions(config) ==
    LET withRules ==
            IF Len(config.rules) > 0
            THEN config.instructions \o <<NL, NL>> \o
                 Flatten([i \in 1..Len(config.rules) |-> config.rules[i].content \o <<NL, NL>>])
            ELSE config.instructions
        withCommands ==
            IF Len(config.commands) > 0
            THEN withRules \o CommandsHeader \o
                 Flatten([i \in 1..Len(config.commands) |->
                             <<"-", " ">> \o config.commands[i] \o <<NL>>])
            ELSE withRules
    IN  Trim(withCommands)

\* cursorRules[rule.filename.replace(".md", ".mdc")] = ..., one rule after the other
RECURSIVE CursorRules(_, _)
CursorRules(acc, rules) ==
    IF rules = <<>> THEN acc
    ELSE CursorRules(
             Put(acc, ReplaceFirst(Head(rules).filename, ExtMd, ExtMdc),
                 CursorRuleContent(Head(rules))),
             Tail(rules))

TypeError == "TypeError"

\* Object.entries(config.mcp.mcpServers) raises when mcp.json holds an object
\* without mcpServers
generateFiles(config) ==
    IF ~HasKey(config.mcp, "mcpServers")
    THEN [raised |-> TRUE]
    ELSE LET instructionsContent == generateInstructions(config)
             json == GeneratedMCP(config.mcp)
         IN  [raised |-> FALSE,
              claude |-> instructionsContent,
              gemini |-> instructionsContent,
              agents |-> instructionsContent,
              mcp |-> json.mcp,
              cursorRules |-> CursorRules(<<>>, config.rules),
              geminiSettings |-> json.geminiSettings,
              opencode |-> json.opencode]

\* writeGeneratedFiles appending to CLAUDE.md instead of overwriting it
writeGeneratedFilesAppend(d, generated) ==
    [d EXCEPT
        !.claude = TextFile((IF Exists(d.claude) THEN d.claude.text ELSE <<>>)
                                \o generated.claude),
        !.gemini = TextFile(generated.gemini),
        !.agents = TextFile(generated.agents),
        !.mcp = JSONFile(generated.mcp),
        !.cursorRulesDir = TRUE,
        !.cursorRules = ObjectAssign(d.cursorRules, generated.cursorRules),
        !.geminiDir = TRUE,
        !.geminiSettings = JSONFile(generated.geminiSettings),
        !.opencode = JSONFile(generated.opencode)]

\* writeGeneratedFiles without the Bun.write of AGENTS.md
writeGeneratedFilesNoAgents(d, generated) ==
    [d EXCEPT
        !.claude = TextFile(generated.claude),
        !.gemini = TextFile(generated.gemini),
        !.mcp = JSONFile(generated.mcp),
        !.cursorRulesDir = TRUE,
        !.cursorRules = ObjectAssign(d.cursorRules, generated.cursorRules),
        !.geminiDir = TRUE,
        !.geminiSettings = JSONFile(generated.geminiSettings),
        !.opencode = JSONFile(generated.opencode)]

\* Bun.write of every generated file; ensureDirectoryExists of .cursor/rules and
\* .gemini; the files already in .cursor/rules stay
writeGeneratedFiles(d, generated) ==
    [d EXCEPT
        !.claude = TextFile(generated.claude),
        !.gemini = TextFile(generated.gemini),
        !.agents = TextFile(generated.agents),
        !.mcp = JSONFile(generated.mcp),
        !.cursorRulesDir = TRUE,
        !.cursorRules = ObjectAssign(d.cursorRules, generated.cursorRules),
        !.geminiDir = TRUE,
        !.geminiSettings = JSONFile(generated.geminiSettings),
        !.opencode = JSONFile(generated.opencode)]

AiNotFound == ".ai directory not found in current directory"

\* no configuration read, nothing generated
NoConfig == [instructions |-> <<>>, rules |-> <<>>, commands |-> <<>>,
             mcp |-> [mcpServers |-> <<>>]]

NoFiles == [raised |-> TRUE]

\* the directory runGeneration leaves, how it ended, and the config and files it
\* had at hand
runGeneration(d) ==
    IF ~d.aiDir
    THEN [disk |-> d, outcome |-> AiNotFound, config |-> NoConfig, files |-> NoFiles]
    ELSE LET cfg == readAIConfig(d)
             generated == generateFiles(cfg)
         IN  IF generated.raised
             THEN [disk |-> d, outcome |-> TypeError, config |-> cfg, files |-> NoFiles]
             ELSE [disk |-> writeGeneratedFiles(d, generated), outcome |-> "ok",
                   config |-> cfg, files |-> generated]

(***************************************************************************)
(* detectProviderFiles, runMigration, createInitialAIStructure, runInit    *)
(* (migrator.ts).                                                          *)
(***************************************************************************)
detectProviderFiles(d) ==
    [claude |-> Exists(d.claude),
     gemini |-> Exists(d.gemini),
     agents |-> Exists(d.agents),
     mcp |-> Exists(d.mcp),
     geminiSettings |-> Exists(d.geminiSettings),
     opencode |-> Exists(d.opencode),
     cursorRules |-> IF d.cursorRulesDir THEN GlobScan(d.cursorRules, ExtMdc) ELSE <<>>,
     claudeCommands |-> IF d.claudeCommandsDir THEN GlobScan(d.claudeCommands, ExtMd) ELSE <<>>]

hasAnyFiles(detected) ==
    \/ detected.claude
    \/ detected.gemini
    \/ detected.agents
    \/ Len(detected.cursorRules) > 0
    \/ Len(detected.claudeCommands) > 0
    \/ detected.mcp
    \/ detected.geminiSettings
    \/ detected.opencode

Separator == <<NL, NL, "-", "-", "-", NL, NL>>

\* "Migrate instructions - concatenate CLAUDE.md + GEMINI.md + AGENTS.md"
MigratedInstructions(d, detected) ==
    LET i1 == IF detected.claude THEN d.claude.text ELSE <<>>
        i2 == IF detected.gemini
              THEN (IF i1 # <<>> THEN i1 \o Separator ELSE i1) \o d.gemini.text
              ELSE i1
        i3 == IF detected.agents
              THEN (IF i2 # <<>> THEN i2 \o Separator ELSE i2) \o d.agents.text
              ELSE i2
    IN  i3

\* Bun.write(`.ai/rules/${basename.replace(".mdc", ".md")}`, content), file by file
RECURSIVE MigrateRules(_, _, _)
MigrateRules(aiRules, ruleFiles, cursorRules) ==
    IF ruleFiles = <<>> THEN aiRules
    ELSE MigrateRules(
             Put(aiRules, ReplaceFirst(Head(ruleFiles), ExtMdc, ExtMd),
                 cursorRules[Head(ruleFiles)]),
             Tail(ruleFiles), cursorRules)

\* Bun.write(`.ai/commands/${basename}`, content), file by file
RECURSIVE MigrateCommands(_, _, _)
MigrateCommands(aiCommands, commandFiles, claudeCommands) ==
    IF commandFiles = <<>> THEN aiCommands
    ELSE MigrateCommands(
             Put(aiCommands, Head(commandFiles), claudeCommands[Head(commandFiles)]),
             Tail(commandFiles), claudeCommands)

AiExists == ".ai folder already exists"
NothingFound == "No AI provider configs found to migrate"

\* runMigration with the .ai structure created before anything is detected
runMigrationDirsFirst(d) ==
    IF d.aiDir THEN [disk |-> d, outcome |-> AiExists]
    ELSE [disk |-> [d EXCEPT !.aiDir = TRUE, !.aiRulesDir = TRUE, !.aiCommandsDir = TRUE],
          outcome |-> IF hasAnyFiles(detectProviderFiles(d)) THEN "ok" ELSE NothingFound]

\* runMigration writing the empty server list when no server was merged
runMigrationEmptyMcp(d) ==
    IF d.aiDir THEN [disk |-> d, outcome |-> AiExists]
    ELSE LET detected == detectProviderFiles(d)
         IN  IF ~hasAnyFiles(detected) THEN [disk |-> d, outcome |-> NothingFound]
             ELSE LET instructions == MigratedInstructions(d, detected)
                      extracted == extractAllMCPConfigs(d.mcp, d.geminiSettings, d.opencode)
                  IN  [disk |->
                          [d EXCEPT
                              !.aiDir = TRUE,
                              !.aiRulesDir = TRUE,
                              !.aiCommandsDir = TRUE,
                              !.aiInstructions =
                                  IF instructions # <<>> THEN TextFile(instructions)
                                  ELSE d.aiInstructions,
                              !.aiRules =
                                  MigrateRules(d.aiRules, detected.cursorRules, d.cursorRules),
                              !.aiCommands =
                                  MigrateCommands(d.aiCommands, detected.claudeCommands,
                                                  d.claudeCommands),
                              !.aiMcp = JSONFile(extracted.merged)],
                       outcome |-> "ok"]

\* runMigration moving the instruction files instead of copying their text
runMigrationRemovesSources(d) ==
    IF d.aiDir THEN [disk |-> d, outcome |-> AiExists]
    ELSE LET detected == detectProviderFiles(d)
         IN  IF ~hasAnyFiles(detected) THEN [disk |-> d, outcome |-> NothingFound]
             ELSE LET instructions == MigratedInstructions(d, detected)
                      extracted == extractAllMCPConfigs(d.mcp, d.geminiSettings, d.opencode)
                      serverCount == Cardinality(DOMAIN extracted.merged.mcpServers)
                  IN  [disk |->
                          [d EXCEPT
                              !.aiDir = TRUE,
                              !.aiRulesDir = TRUE,
                              !.aiCommandsDir = TRUE,
                              !.aiInstructions =
                                  IF instructions # <<>> THEN TextFile(instructions)
                                  ELSE d.aiInstructions,
                              !.claude = Absent,
                              !.gemini = Absent,
                              !.agents = Absent,
                              !.aiRules =
                                  MigrateRules(d.aiRules, detected.cursorRules, d.cursorRules),
                              !.aiCommands =
                                  MigrateCommands(d.aiCommands, detected.claudeCommands,
                                                  d.claudeCommands),
                              !.aiMcp = IF serverCount > 0 THEN JSONFile(extracted.merged)
                                        ELSE d.aiMcp],
                       outcome |-> "ok"]

runMigration(d) ==
    IF d.aiDir THEN [disk |-> d, outcome |-> AiExists]
    ELSE LET detected == detectProviderFiles(d)
         IN  IF ~hasAnyFiles(detected) THEN [disk |-> d, outcome |-> NothingFound]
             ELSE LET instructions == MigratedInstructions(d, detected)
                      extracted == extractAllMCPConfigs(d.mcp, d.geminiSettings, d.opencode)
                      serverCount == Cardinality(DOMAIN extracted.merged.mcpServers)
                  IN  [disk |->
                          [d EXCEPT
                              !.aiDir = TRUE,
                              !.aiRulesDir = TRUE,
                              !.aiCommandsDir = TRUE,
                              !.aiInstructions =
                                  IF instructions # <<>> THEN TextFile(instructions)
                                  ELSE d.aiInstructions,
                              !.aiRules =
                                  MigrateRules(d.aiRules, detected.cursorRules, d.cursorRules),
                              !.aiCommands =
                                  MigrateCommands(d.aiCommands, detected.claudeCommands,
                                                  d.claudeCommands),
                              !.aiMcp = IF serverCount > 0 THEN JSONFile(extracted.merged)
                                        ELSE d.aiMcp],
                       outcome |-> "ok"]

\* const dummyInstructions = `...` (migrator.ts:486-502)
dummyInstructions ==
    (<<"#", " ", "A", "I", " ", "I", "n", "s", "t", "r", "u", "c", "t", "i", "o", "n">> \o
      <<"s", NL>> \o
      <<NL>> \o
      <<"T", "h", "i", "s", " ", "i", "s", " ", "y", "o", "u", "r", " ", "A", "I", " ">> \o
      <<"a", "s", "s", "i", "s", "t", "a", "n", "t", " ", "c", "o", "n", "f", "i", "g">> \o
      <<"u", "r", "a", "t", "i", "o", "n", " ", "f", "i", "l", "e", ".", " ", "Y", "o">> \o
      <<"u", " ", "c", "a", "n", ":", NL>> \o
      <<NL>> \o
      <<"-", " ", "A", "d", "d", " ", "p", "r", "o", "j", "e", "c", "t", "-", "s", "p">> \o
      <<"e", "c", "i", "f", "i", "c", " ", "i", "n", "s", "t", "r", "u", "c", "t", "i">> \o
      <<"o", "n", "s", " ", "h", "e", "r", "e", NL>> \o
      <<"-", " ", "I", "n", "c", "l", "u", "d", "e", " ", "c", "o", "d", "i", "n", "g">> \o
      <<" ", "c", "o", "n", "v", "e", "n", "t", "i", "o", "n", "s", " ", "a", "n", "d">> \o
      <<" ", "p", "r", "e", "f", "e", "r", "e", "n", "c", "e", "s", " ", " ", NL>> \o
      <<"-", " ", "D", "e", "f", "i", "n", "e", " ", "y", "o", "u", "r", " ", "p", "r">> \o
      <<"e", "f", "e", "r", "r", "e", "d", " ", "c", "o", "m", "m", "u", "n", "i", "c">> \o
      <<"a", "t", "i", "o", "n", " ", "s", "t", "y", "l", "e", NL>> \o
      <<"-", " ", "A", "d", "d", " ", "a", "n", "y", " ", "c", "o", "n", "t", "e", "x">> \o
      <<"t", " ", "t", "h", "a", "t", " ", "h", "e", "l", "p", "s", " ", "t", "h", "e">> \o
      <<" ", "A", "I", " ", "u", "n", "d", "e", "r", "s", "t", "a", "n", "d", " ", "y">> \o
      <<"o", "u", "r", " ", "p", "r", "o", "j", "e", "c", "t", NL>> \o
      <<NL>> \o
      <<"#", "#", " ", "P", "r", "o", "j", "e", "c", "t", " ", "C", "o", "n", "t", "e">> \o
      <<"x", "t", NL>> \o
      <<NL>> \o
      <<"A", "d", "d", " ", "i", "n", "f", "o", "r", "m", "a", "t", "i", "o", "n", " ">> \o
      <<"a", "b", "o", "u", "t", " ", "y", "o", "u", "r", " ", "p", "r", "o", "j", "e">> \o
      <<"c", "t", " ", "h", "e", "r", "e", ".", NL>> \o
      <<NL>> \o
      <<"#", "#", " ", "C", "o", "d", "i", "n", "g", " ", "S", "t", "y", "l", "e", NL>> \o
      <<NL>> \o
      <<"A", "d", "d", " ", "y", "o", "u", "r", " ", "p", "r", "e", "f", "e", "r", "r">> \o
      <<"e", "d", " ", "c", "o", "d", "i", "n", "g", " ", "p", "a", "t", "t", "e", "r">> \o
      <<"n", "s", " ", "a", "n", "d", " ", "c", "o", "n", "v", "e", "n", "t", "i", "o">> \o
      <<"n", "s", " ", "h", "e", "r", "e", ".", NL>>)

\* const dummyRule = `...` (migrator.ts:507-521)
dummyRule ==
    (<<"-", "-", "-", NL>> \o
      <<"n", "a", "m", "e", ":", " ", "e", "x", "a", "m", "p", "l", "e", "-", "r", "u">> \o
      <<"l", "e", NL>> \o
      <<"d", "e", "s", "c", "r", "i", "p", "t", "i", "o", "n", ":", " ", "A", "n", " ">> \o
      <<"e", "x", "a", "m", "p", "l", "e", " ", "r", "u", "l", "e", " ", "s", "h", "o">> \o
      <<"w", "i", "n", "g", " ", "t", "h", "e", " ", "f", "o", "r", "m", "a", "t", NL>> \o
      <<"-", "-", "-", NL>> \o
      <<NL>> \o
      <<"#", " ", "E", "x", "a", "m", "p", "l", "e", " ", "R", "u", "l", "e", NL>> \o
      <<NL>> \o
      <<"T", "h", "i", "s", " ", "i", "s", " ", "a", "n", " ", "e", "x", "a", "m", "p">> \o
      <<"l", "e", " ", "r", "u", "l", "e", " ", "f", "i", "l", "e", ".", " ", "Y", "o">> \o
      <<"u", " ", "c", "a", "n", " ", "c", "r", "e", "a", "t", "e", " ", "m", "u", "l">> \o
      <<"t", "i", "p", "l", "e", " ", "r", "u", "l", "e", " ", "f", "i", "l", "e", "s">> \o
      <<" ", "i", "n", " ", "t", "h", "e", " ", "r", "u", "l", "e", "s", "/", " ", "d">> \o
      <<"i", "r", "e", "c", "t", "o", "r", "y", ".", NL>> \o
      <<NL>> \o
      <<"E", "a", "c", "h", " ", "r", "u", "l", "e", " ", "c", "a", "n", " ", "h", "a">> \o
      <<"v", "e", ":", NL>> \o
      <<"-", " ", "F", "r", "o", "n", "t", "m", "a", "t", "t", "e", "r", " ", "w", "i">> \o
      <<"t", "h", " ", "m", "e", "t", "a", "d", "a", "t", "a", " ", "(", "n", "a", "m">> \o
      <<"e", ",", " ", "d", "e", "s", "c", "r", "i", "p", "t", "i", "o", "n", ",", " ">> \o
      <<"e", "t", "c", ".", ")", NL>> \o
      <<"-", " ", "M", "a", "r", "k", "d", "o", "w", "n", " ", "c", "o", "n", "t", "e">> \o
      <<"n", "t", " ", "w", "i", "t", "h", " ", "s", "p", "e", "c", "i", "f", "i", "c">> \o
      <<" ", "i", "n", "s", "t", "r", "u", "c", "t", "i", "o", "n", "s", " ", "o", "r">> \o
      <<" ", "p", "a", "t", "t", "e", "r", "n", "s", NL>> \o
      <<NL>> \o
      <<"D", "e", "l", "e", "t", "e", " ", "t", "h", "i", "s", " ", "f", "i", "l", "e">> \o
      <<" ", "a", "n", "d", " ", "a", "d", "d", " ", "y", "o", "u", "r", " ", "o", "w">> \o
      <<"n", " ", "r", "u", "l", "e", "s", " ", "a", "s", " ", "n", "e", "e", "d", "e">> \o
      <<"d", ".", NL>>)

\* const dummyCommand = `...` (migrator.ts:526-536)
dummyCommand ==
    (<<"#", " ", "e", "x", "a", "m", "p", "l", "e", "-", "c", "o", "m", "m", "a", "n">> \o
      <<"d", NL>> \o
      <<NL>> \o
      <<"T", "h", "i", "s", " ", "i", "s", " ", "a", "n", " ", "e", "x", "a", "m", "p">> \o
      <<"l", "e", " ", "c", "o", "m", "m", "a", "n", "d", " ", "f", "i", "l", "e", ".">> \o
      <<" ", "Y", "o", "u", " ", "c", "a", "n", " ", "c", "r", "e", "a", "t", "e", " ">> \o
      <<"m", "u", "l", "t", "i", "p", "l", "e", " ", "c", "o", "m", "m", "a", "n", "d">> \o
      <<" ", "f", "i", "l", "e", "s", " ", "i", "n", " ", "t", "h", "e", " ", "c", "o">> \o
      <<"m", "m", "a", "n", "d", "s", "/", " ", "d", "i", "r", "e", "c", "t", "o", "r">> \o
      <<"y", ".", NL>> \o
      <<NL>> \o
      <<"C", "o", "m", "m", "a", "n", "d", "s", " ", "c", "a", "n", " ", "c", "o", "n">> \o
      <<"t", "a", "i", "n", ":", NL>> \o
      <<"-", " ", "S", "p", "e", "c", "i", "f", "i", "c", " ", "i", "n", "s", "t", "r">> \o
      <<"u", "c", "t", "i", "o", "n", "s", " ", "f", "o", "r", " ", "t", "a", "s", "k">> \o
      <<"s", NL>> \o
      <<"-", " ", "C", "o", "d", "e", " ", "t", "e", "m", "p", "l", "a", "t", "e", "s">> \o
      <<NL>> \o
      <<"-", " ", "W", "o", "r", "k", "f", "l", "o", "w", " ", "d", "e", "s", "c", "r">> \o
      <<"i", "p", "t", "i", "o", "n", "s", NL>> \o
      <<NL>> \o
      <<"D", "e", "l", "e", "t", "e", " ", "t", "h", "i", "s", " ", "f", "i", "l", "e">> \o
      <<" ", "a", "n", "d", " ", "a", "d", "d", " ", "y", "o", "u", "r", " ", "o", "w">> \o
      <<"n", " ", "c", "o", "m", "m", "a", "n", "d", "s", " ", "a", "s", " ", "n", "e">> \o
      <<"e", "d", "e", "d", ".", NL>>)

ExampleMd == <<"e", "x", "a", "m", "p", "l", "e", ".", "m", "d">>

\* createInitialAIStructure without the empty MCP config
createInitialAIStructureNoMcp(d) ==
    [d EXCEPT
        !.aiDir = TRUE,
        !.aiRulesDir = TRUE,
        !.aiCommandsDir = TRUE,
        !.aiInstructions = TextFile(dummyInstructions),
        !.aiRules = Put(d.aiRules, ExampleMd, dummyRule),
        !.aiCommands = Put(d.aiCommands, ExampleMd, dummyCommand)]

createInitialAIStructure(d) ==
    [d EXCEPT
        !.aiDir = TRUE,
        !.aiRulesDir = TRUE,
        !.aiCommandsDir = TRUE,
        !.aiInstructions = TextFile(dummyInstructions),
        !.aiRules = Put(d.aiRules, ExampleMd, dummyRule),
        !.aiCommands = Put(d.aiCommands, ExampleMd, dummyCommand),
        !.aiMcp = JSONFile([mcpServers |-> <<>>])]

\* InitMigration without the loop that migrates the commands
InitMigrationNoCommands(d, detected) ==
    LET instructions == MigratedInstructions(d, detected)
        extracted == extractAllMCPConfigs(d.mcp, d.geminiSettings, d.opencode)
        serverCount == Cardinality(DOMAIN extracted.merged.mcpServers)
    IN  [d EXCEPT
            !.aiDir = TRUE,
            !.aiRulesDir = TRUE,
            !.aiCommandsDir = TRUE,
            !.aiInstructions =
                IF instructions # <<>> THEN TextFile(instructions) ELSE d.aiInstructions,
            !.aiRules = MigrateRules(d.aiRules, detected.cursorRules, d.cursorRules),
            !.aiMcp = IF serverCount > 0 THEN JSONFile(extracted.merged)
                      ELSE JSONFile([mcpServers |-> <<>>])]

\* runInit's "Run migration logic" branch
InitMigration(d, detected) ==
    LET instructions == MigratedInstructions(d, detected)
        extracted == extractAllMCPConfigs(d.mcp, d.geminiSettings, d.opencode)
        serverCount == Cardinality(DOMAIN extracted.merged.mcpServers)
    IN  [d EXCEPT
            !.aiDir = TRUE,
            !.aiRulesDir = TRUE,
            !.aiCommandsDir = TRUE,
            !.aiInstructions =
                IF instructions # <<>> THEN TextFile(instructions) ELSE d.aiInstructions,
            !.aiRules = MigrateRules(d.aiRules, detected.cursorRules, d.cursorRules),
            !.aiCommands =
                MigrateCommands(d.aiCommands, detected.claudeCommands, d.claudeCommands),
            !.aiMcp = IF serverCount > 0 THEN JSONFile(extracted.merged)
                      ELSE JSONFile([mcpServers |-> <<>>])]

\* runInit without the check that .ai already exists
runInitNoCheck(d) ==
    LET detected == detectProviderFiles(d)
    IN  IF hasAnyFiles(detected)
        THEN [disk |-> InitMigration(d, detected), outcome |-> "ok"]
        ELSE [disk |-> createInitialAIStructure(d), outcome |-> "ok"]

runInit(d) ==
    IF d.aiDir THEN [disk |-> d, outcome |-> "ok"]
    ELSE LET detected == detectProviderFiles(d)
         IN  IF hasAnyFiles(detected)
             THEN [disk |-> InitMigration(d, detected), outcome |-> "ok"]
             ELSE [disk |-> createInitialAIStructure(d), outcome |-> "ok"]

(***************************************************************************)
(* Server lists handed to generateFiles and to extractAllMCPConfigs.       *)
(***************************************************************************)
Names == {"fs", "constructor"}

ArgSet == {"a", "b"}

EnvSet == {<<>>, [K |-> "v"], [K |-> "v", L |-> "w"]}

Opt(field, S) == {<<>>} \cup {(field :> v) : v \in S}

\* every MCPServer: type?, command, args?, env?
MCPServers ==
    {((t @@ a) @@ e) @@ [command |-> c] :
        t \in Opt("type", {"stdio", "sse"}),
        a \in Opt("args", SeqsUpTo(ArgSet, MaxArgs)),
        e \in Opt("env", EnvSet),
        c \in {"npx", ""}}

\* the servers of the source files of a merge
SourceMCPServers ==
    { [command |-> "npx", args |-> <<"a">>],
      [type |-> "stdio", command |-> "bun", args |-> <<"b">>, env |-> [K |-> "v"]] }

SourceOpenCodeServers ==
    { [type |-> "local", command |-> <<"bun", "p.ts">>, environment |-> [K |-> "v"]],
      [type |-> "local", command |-> <<"npx">>],
      [type |-> "local", command |-> <<>>],
      [type |-> "remote", url |-> "u"] }

ServerLists(S) == UNION {[N -> S] : N \in SUBSET Names}

\* a canonical server list: one server of any shape, or two of the source shapes
CanonicalServerLists ==
    {sl \in ServerLists(MCPServers) : Cardinality(DOMAIN sl) <= 1}
        \cup ServerLists(SourceMCPServers)

SourceFiles(key, S) ==
    {Absent, Malformed, JSONFile(<<>>)} \cup {JSONFile((key :> sl)) : sl \in ServerLists(S)}

NoDisk == [mcp |-> Absent, geminiSettings |-> Absent, opencode |-> Absent]

NoGen == [mcp |-> <<>>, geminiSettings |-> <<>>, opencode |-> <<>>]

NoOut == [merged |-> [mcpServers |-> <<>>], duplicates |-> <<>>]

(***************************************************************************)
(* SpecMCP: the server list from the canonical config to the three         *)
(* provider files and back through extractAllMCPConfigs, and the merge of  *)
(* three provider files found on disk.                                     *)
(***************************************************************************)
FMIdle ==
    /\ fmIn = <<>>
    /\ fmOut = [frontmatter |-> EmptyObj, content |-> <<>>]
    /\ fmRule = <<>>
    /\ fmPc = "idle"

FsIdle ==
    /\ disk = <<>>
    /\ pre = <<>>
    /\ lastOp = "idle"
    /\ outcome = "idle"
    /\ genConfig = NoConfig
    /\ genFiles = NoFiles

McpIdle ==
    /\ mcpConfig = [mcpServers |-> <<>>]
    /\ mcpGen = NoGen
    /\ mcpDisk = NoDisk
    /\ mcpOut = NoOut
    /\ mcpPc = "idle"

MCPInit ==
    /\ FMIdle
    /\ FsIdle
    /\ mcpGen = NoGen
    /\ mcpOut = NoOut
    /\ \/ /\ mcpPc = "config"
          /\ mcpConfig \in {[mcpServers |-> sl] : sl \in CanonicalServerLists}
          /\ mcpDisk = NoDisk
       \/ /\ mcpPc = "files"
          /\ mcpConfig = [mcpServers |-> <<>>]
          /\ mcpDisk \in [mcp : SourceFiles("mcpServers", SourceMCPServers),
                          geminiSettings : SourceFiles("mcpServers", SourceMCPServers),
                          opencode : SourceFiles("mcp", SourceOpenCodeServers)]

\* generateFiles(config): the server-list payloads
GenerateFilesMCP ==
    /\ mcpPc = "config"
    /\ mcpGen' = GeneratedMCP(mcpConfig)
    /\ mcpPc' = "generated"
    /\ UNCHANGED <<mcpConfig, mcpDisk, mcpOut, fmVars, fsVars>>

\* writeGeneratedFiles(files): Bun.write of the three server-list files
WriteGeneratedFilesMCP ==
    /\ mcpPc = "generated"
    /\ mcpDisk' = [mcp |-> JSONFile(mcpGen.mcp),
                   geminiSettings |-> JSONFile(mcpGen.geminiSettings),
                   opencode |-> JSONFile(mcpGen.opencode)]
    /\ mcpPc' = "files"
    /\ UNCHANGED <<mcpConfig, mcpGen, mcpOut, fmVars, fsVars>>

ExtractAllMCPConfigs ==
    /\ mcpPc = "files"
    /\ mcpOut' = extractAllMCPConfigs(mcpDisk.mcp, mcpDisk.geminiSettings, mcpDisk.opencode)
    /\ mcpPc' = "extracted"
    /\ UNCHANGED <<mcpConfig, mcpGen, mcpDisk, fmVars, fsVars>>

MCPNext == GenerateFilesMCP \/ WriteGeneratedFilesMCP \/ ExtractAllMCPConfigs

SpecMCP == MCPInit /\ [][MCPNext]_vars

(***************************************************************************)
(* Rule file contents handed to parseFrontmatter.                          *)
(***************************************************************************)
LineSet ==
    { Marker,
      <<>>,
      <<"a", ":", " ", "1">>,
      <<"a", ":", DQ, "x", DQ>>,
      <<"#", "c">>,
      <<"x">>,
      <<" ", "b", " ", ":", "y", " ">> }

LineContents == {Join(ls, <<NL>>) : ls \in SeqsUpTo(LineSet, MaxLines) \ {<<>>}}

ValueTokens ==
    { <<"t", "r", "u", "e">>, <<"f", "a", "l", "s", "e">>,
      <<"0">>, <<"7">>, <<".">>, <<DQ>>, <<SQ>>, <<"x">>, <<" ">>, <<":">> }

Values == {Flatten(ts) : ts \in SeqsUpTo(ValueTokens, MaxValTokens)}

\* "---\nk:" + value + "\n---\nB"
ValueContent(v) ==
    Marker \o <<NL, "k", ":">> \o v \o <<NL>> \o Marker \o <<NL, "B">>

ValueContents == {ValueContent(v) : v \in Values}

FMInputs == LineContents \cup ValueContents

(***************************************************************************)
(* SpecFM: parseFrontmatter applied to a rule file, and the cursor rule    *)
(* generateFiles builds from the result.                                   *)
(***************************************************************************)
FMInit ==
    /\ McpIdle
    /\ FsIdle
    /\ fmIn \in FMInputs
    /\ fmOut = [frontmatter |-> EmptyObj, content |-> <<>>]
    /\ fmRule = <<>>
    /\ fmPc = "input"

ParseFrontmatter ==
    /\ fmPc = "input"
    /\ fmOut' = parseFrontmatter(fmIn)
    /\ fmPc' = "parsed"
    /\ UNCHANGED <<fmIn, fmRule, mcpVars, fsVars>>

GenerateCursorRule ==
    /\ fmPc = "parsed"
    /\ fmRule' = CursorRuleContent(fmOut)
    /\ fmPc' = "generated"
    /\ UNCHANGED <<fmIn, fmOut, mcpVars, fsVars>>

FMNext == ParseFrontmatter \/ GenerateCursorRule

SpecFM == FMInit /\ [][FMNext]_vars

(***************************************************************************)
(* Spec: runGeneration, runMigration and runInit in a working directory.   *)
(***************************************************************************)
RuleMd == <<"r", ".", "m", "d">>
RuleMdc == <<"r", ".", "m", "d", "c">>
OldMdc == <<"o", ".", "m", "d", "c">>
CmdMd == <<"c", ".", "m", "d">>
Cmd2Md == <<"d", ".", "m", "d">>
\* "a.md.md": a rule name that holds its extension twice
TwiceMd == <<"a", ".", "m", "d", ".", "m", "d">>
\* "a.mdc.mdc": a name that holds its extension twice
TwiceMdc == <<"a", ".", "m", "d", "c", ".", "m", "d", "c">>

\* "---\na: 1\n---\nR"
RuleText == Marker \o <<NL, "a", ":", " ", "1", NL>> \o Marker \o <<NL, "R">>

ServerA == [command |-> "npx", args |-> <<"a">>]
ServerB == [type |-> "stdio", command |-> "bun", args |-> <<"b">>, env |-> [K |-> "v"]]
OpenCodeC == [type |-> "local", command |-> <<"bun", "p.ts">>, environment |-> [K |-> "v"]]

\* " I\n": instructions with whitespace at both ends
InstructionsText == <<" ", "I", NL>>

\* the .ai directory: missing, or there with any of its four parts
AiStates ==
    {[aiDir |-> FALSE, aiRulesDir |-> FALSE, aiCommandsDir |-> FALSE,
      aiInstructions |-> Absent, aiRules |-> <<>>, aiCommands |-> <<>>, aiMcp |-> Absent]}
    \cup
    {[aiDir |-> TRUE, aiRulesDir |-> r.dir, aiCommandsDir |-> c,
      aiInstructions |-> i,
      aiRules |-> r.files,
      aiCommands |-> IF c THEN (CmdMd :> <<"X">>) @@ (Cmd2Md :> <<"Z">>) ELSE <<>>,
      aiMcp |-> m] :
        r \in {[dir |-> FALSE, files |-> <<>>],
               [dir |-> TRUE, files |-> (RuleMd :> RuleText)]},
        c \in BOOLEAN,
        i \in {Absent, TextFile(InstructionsText)},
        m \in {Absent, Malformed, JSONFile(<<>>), JSONFile([mcpServers |-> [fs |-> ServerB]])}}
    \cup
    \* two rules, one without metadata
    {[aiDir |-> TRUE, aiRulesDir |-> TRUE, aiCommandsDir |-> c,
      aiInstructions |-> TextFile(InstructionsText),
      aiRules |-> (RuleMd :> RuleText) @@ (TwiceMd :> <<"S">>),
      aiCommands |-> IF c THEN (CmdMd :> <<"X">>) @@ (Cmd2Md :> <<"Z">>) ELSE <<>>,
      aiMcp |-> JSONFile([mcpServers |-> [fs |-> ServerB]])] :
        c \in BOOLEAN}

\* the provider files
ProviderStates ==
    {[claude |-> cl, gemini |-> ge, agents |-> ag, mcp |-> mc,
      geminiDir |-> Exists(gs), geminiSettings |-> gs, opencode |-> oc,
      cursorRulesDir |-> cr.dir, cursorRules |-> cr.files,
      claudeCommandsDir |-> cc # <<>>, claudeCommands |-> cc] :
        cl \in {Absent, TextFile(<<>>), TextFile(<<"C">>)},
        ge \in {Absent, TextFile(<<"G">>)},
        ag \in {Absent, TextFile(<<"A">>)},
        mc \in {Absent, JSONFile([mcpServers |-> [fs |-> ServerA]])},
        gs \in {Absent, JSONFile([theme |-> "dark"]),
                JSONFile([theme |-> "dark", mcpServers |-> [fs |-> ServerB]])},
        oc \in {Absent, JSONFile([mcp |-> [fs |-> OpenCodeC]])},
        cr \in {[dir |-> FALSE, files |-> <<>>],
                [dir |-> TRUE, files |-> (RuleMdc :> RuleText)],
                [dir |-> TRUE, files |-> (OldMdc :> <<"P">>)],
                [dir |-> TRUE, files |-> (RuleMd :> <<"P">>)],
                [dir |-> TRUE, files |-> (TwiceMdc :> <<"Q">>)]},
        cc \in {<<>>, (CmdMd :> <<"Y">>)}}

Init ==
    /\ FMIdle
    /\ McpIdle
    /\ disk \in {a @@ p : a \in AiStates, p \in ProviderStates}
    /\ pre = disk
    /\ lastOp = "none"
    /\ outcome = "none"
    /\ genConfig = NoConfig
    /\ genFiles = NoFiles

Run(op, result, cfg, generated) ==
    /\ pre' = disk
    /\ lastOp' = op
    /\ disk' = result.disk
    /\ outcome' = result.outcome
    /\ genConfig' = cfg
    /\ genFiles' = generated
    /\ UNCHANGED <<fmVars, mcpVars>>

RunGeneration ==
    LET result == runGeneration(disk)
    IN  Run("runGeneration", result, result.config, result.files)

RunMigration == Run("runMigration", runMigration(disk), NoConfig, NoFiles)

RunInit == Run("runInit", runInit(disk), NoConfig, NoFiles)

Next == RunGeneration \/ RunMigration \/ RunInit

Spec == Init /\ [][Next]_vars

(***************************************************************************)
(* Properties of the operations on the working directory.                  *)
(***************************************************************************)
\* nothing that migration looks for is in the working directory
NoProviderArtifact(d) ==
    /\ d.claude = Absent /\ d.gemini = Absent /\ d.agents = Absent
    /\ d.mcp = Absent /\ d.geminiSettings = Absent /\ d.opencode = Absent
    /\ ~\E n \in DOMAIN d.cursorRules : EndsWith(n, ExtMdc)
    /\ ~\E n \in DOMAIN d.claudeCommands : EndsWith(n, ExtMd)

\* C3: when generation writes .gemini/settings.json over an existing file, every
\* top-level key of that file other than mcpServers keeps its value, and
\* mcpServers is the canonical server list.
CexC3 ==
    (lastOp = "runGeneration" /\ outcome = "ok" /\ pre.geminiSettings.kind = "json") =>
        /\ disk.geminiSettings.kind = "json"
        /\ \A k \in (DOMAIN pre.geminiSettings.value) \ {"mcpServers"} :
               /\ k \in DOMAIN disk.geminiSettings.value
               /\ disk.geminiSettings.value[k] = pre.geminiSettings.value[k]
        /\ disk.geminiSettings.value.mcpServers = readAIConfig(pre).mcp.mcpServers

\* C5: runMigration with .ai present, runMigration with nothing to migrate and
\* runGeneration without .ai raise, and the working directory is as it was.
ThmC5 ==
    /\ (lastOp = "runMigration" /\ pre.aiDir) => (outcome = AiExists /\ disk = pre)
    /\ (lastOp = "runMigration" /\ ~pre.aiDir /\ NoProviderArtifact(pre))
           => (outcome = NothingFound /\ disk = pre)
    /\ (lastOp = "runGeneration" /\ ~pre.aiDir) => (outcome = AiNotFound /\ disk = pre)

\* runMigration found .cursor/rules without a single .mdc file and nothing else
WitC5 ==
    /\ lastOp = "runMigration"
    /\ ~pre.aiDir
    /\ pre.cursorRulesDir
    /\ DOMAIN pre.cursorRules # {}
    /\ outcome = NothingFound
    /\ ~disk.aiDir

\* C6: runInit with .ai present returns without raising and without touching
\* the working directory, whatever provider files are there.
ThmC6 ==
    (lastOp = "runInit" /\ pre.aiDir) => (outcome = "ok" /\ disk = pre)

\* runInit returned in a directory that has .ai and provider files to migrate
WitC6 ==
    /\ lastOp = "runInit"
    /\ pre.aiDir
    /\ pre.aiInstructions = Absent
    /\ pre.claude # Absent
    /\ pre.cursorRules = (RuleMdc :> RuleText)
    /\ pre.mcp # Absent
    /\ outcome = "ok"
    /\ disk = pre

\* C7: runInit without .ai and without provider artifacts does not raise and
\* leaves non-empty instructions, the one example rule, the one example command
\* and the empty server list.
ThmC7 ==
    (lastOp = "runInit" /\ ~pre.aiDir /\ NoProviderArtifact(pre)) =>
        /\ outcome = "ok"
        /\ disk.aiDir /\ disk.aiRulesDir /\ disk.aiCommandsDir
        /\ disk.aiInstructions.kind = "text"
        /\ Len(disk.aiInstructions.text) > 0
        /\ DOMAIN disk.aiRules = {ExampleMd}
        /\ DOMAIN disk.aiCommands = {ExampleMd}
        /\ disk.aiMcp = JSONFile([mcpServers |-> <<>>])

\* the example structure was written next to a .cursor/rules without .mdc files
WitC7 ==
    /\ lastOp = "runInit"
    /\ ~pre.aiDir
    /\ NoProviderArtifact(pre)
    /\ pre.cursorRulesDir
    /\ outcome = "ok"
    /\ disk.aiRules = (ExampleMd :> dummyRule)
    /\ disk.aiMcp = JSONFile([mcpServers |-> <<>>])

(***************************************************************************)
(* Properties of the server-list merge and of the OpenCode conversion.     *)
(***************************************************************************)
\* the three sources in merge order, as read: .mcp.json, .gemini/settings.json,
\* opencode.json (converted)
MergeSources ==
    LET oc == SourceServers(mcpDisk.opencode, "mcp")
    IN  <<SourceServers(mcpDisk.mcp, "mcpServers"),
          SourceServers(mcpDisk.geminiSettings, "mcpServers"),
          [n \in DOMAIN oc |-> FromOpenCode(oc[n])]>>

SourcesWith(n) == {i \in 1..3 : n \in DOMAIN MergeSources[i]}

Count(s, x) == Cardinality({i \in 1..Len(s) : s[i] = x})

\* C1: a name present in more than one source has, in the merged mapping, the
\* value of the last source in which it appears, and is in the duplicates list
\* exactly once.
ThmC1 ==
    mcpPc = "extracted" =>
        \A n \in Names :
            Cardinality(SourcesWith(n)) >= 2 =>
                LET last == CHOOSE i \in SourcesWith(n) : \A j \in SourcesWith(n) : j <= i
                IN  /\ n \in DOMAIN mcpOut.merged.mcpServers
                    /\ mcpOut.merged.mcpServers[n] = MergeSources[last][n]
                    /\ Count(mcpOut.duplicates, n) = 1

\* a name in all three sources, with different values in the first two
WitC1 ==
    /\ mcpPc = "extracted"
    /\ mcpConfig.mcpServers = <<>>
    /\ \E n \in Names :
           /\ SourcesWith(n) = {1, 2, 3}
           /\ MergeSources[1][n] # MergeSources[2][n]
           /\ MergeSources[2][n] # MergeSources[3][n]
           /\ mcpOut.merged.mcpServers[n] = MergeSources[3][n]
           /\ Count(mcpOut.duplicates, n) = 1

\* the canonical servers with non-empty args and non-empty env
RoundTripNames ==
    {n \in DOMAIN mcpConfig.mcpServers :
        LET s == mcpConfig.mcpServers[n]
        IN  /\ HasKey(s, "args") /\ s.args # <<>>
            /\ HasKey(s, "env") /\ DOMAIN s.env # {}}

SameCommandArgsEnv(s, r) ==
    /\ r.command = s.command
    /\ r.args = s.args
    /\ r.env = s.env

\* C4 as claimed: the server that comes back has the same command, args and env
\* and the transport tag of the original (a server without a tag is a stdio
\* server).
CexC4 ==
    mcpPc = "extracted" =>
        \A n \in RoundTripNames :
            LET s == mcpConfig.mcpServers[n]
                r == mcpOut.merged.mcpServers[n]
            IN  /\ SameCommandArgsEnv(s, r)
                /\ r.type = (IF HasKey(s, "type") THEN s.type ELSE "stdio")

\* C4 as amended: the same command, args and env, and the transport tag
\* "stdio" whatever the tag of the original was.
ThmC4 ==
    mcpPc = "extracted" =>
        \A n \in RoundTripNames :
            LET s == mcpConfig.mcpServers[n]
                r == mcpOut.merged.mcpServers[n]
            IN  /\ n \in DOMAIN mcpDisk.opencode.value.mcp
                /\ mcpDisk.opencode.value.mcp[n].type = "local"
                /\ SameCommandArgsEnv(s, r)
                /\ r.type = "stdio"

\* an sse server with two args and two env entries went out and came back
WitC4 ==
    /\ mcpPc = "extracted"
    /\ \E n \in RoundTripNames :
           /\ HasKey(mcpConfig.mcpServers[n], "type")
           /\ mcpConfig.mcpServers[n].type = "sse"
           /\ Len(mcpConfig.mcpServers[n].args) = 2
           /\ Cardinality(DOMAIN mcpConfig.mcpServers[n].env) = 2
           /\ mcpOut.merged.mcpServers[n].type = "stdio"
           /\ mcpOut.merged.mcpServers[n].args = mcpConfig.mcpServers[n].args

(***************************************************************************)
(* Properties of parseFrontmatter, stated on the lines of the input.       *)
(***************************************************************************)
FMLines == SplitLines(fmIn)

FMParsed == fmPc \in {"parsed", "generated"}

\* the first marker line after line 1 of ls, 0 if there is none
ClosingLine(ls) ==
    LET C == {j \in 2..Len(ls) : ls[j] = Marker}
    IN  IF C = {} THEN 0 ELSE SetMin(C)

OpeningMarkerAtStart(ls) == ls[1] = Marker

\* a block with at least one line between the markers, the closing marker line
\* ended by a newline
HasBlock(ls) ==
    /\ OpeningMarkerAtStart(ls)
    /\ ClosingLine(ls) >= 3
    /\ ClosingLine(ls) < Len(ls)

NoWS(l) == SelectSeq(l, LAMBDA ch : ch \notin Whitespace)

HasColon(l) == \E i \in 1..Len(l) : l[i] = ":"

FirstColon(l) == CHOOSE i \in 1..Len(l) : l[i] = ":" /\ \A j \in 1..(i - 1) : l[j] # ":"

IsBlankLine(l) == NoWS(l) = <<>>

IsCommentLine(l) == ~IsBlankLine(l) /\ NoWS(l)[1] = "#"

IsKeyLine(l) == ~IsBlankLine(l) /\ ~IsCommentLine(l) /\ HasColon(l)

KeyOf(l) == Trim(SubSeq(l, 1, FirstColon(l) - 1))

RawValueOf(l) == Trim(SubSeq(l, FirstColon(l) + 1, Len(l)))

\* C8: content without a metadata block (the opening marker line is not at the
\* very start, or no closing marker line follows it) parses to empty metadata and
\* a body identical to the whole input.
ThmC8 ==
    (FMParsed /\ (~OpeningMarkerAtStart(FMLines) \/ ClosingLine(FMLines) = 0))
        => fmOut = [frontmatter |-> EmptyObj, content |-> fmIn]

\* an opening marker and a key line, but no closing marker: returned whole
WitC8 ==
    /\ fmPc = "parsed"
    /\ Len(FMLines) >= 2
    /\ OpeningMarkerAtStart(FMLines)
    /\ ClosingLine(FMLines) = 0
    /\ \E i \in 2..Len(FMLines) : IsKeyLine(FMLines[i])
    /\ fmOut.content = fmIn
    /\ fmOut.frontmatter = EmptyObj

\* C9: an empty block (opening marker line immediately followed by a closing
\* marker line) parses to empty metadata and a body equal to everything after
\* the closing marker line, whatever that remainder is.
CexC9 ==
    (FMParsed /\ Len(FMLines) >= 3 /\ FMLines[1] = Marker /\ FMLines[2] = Marker)
        => /\ fmOut.frontmatter = EmptyObj
           /\ fmOut.content = Join(SubSeq(FMLines, 3, Len(FMLines)), <<NL>>)

\* C10: the value of a key is typed in the order boolean, integer, float, string;
\* blank lines, comment lines and lines without a colon give no key; a key line
\* is split at its first colon and both sides are trimmed.
TypeMatches(val, raw) ==
    IF raw = <<"t", "r", "u", "e">> THEN val = [t |-> "boolean", b |-> TRUE]
    ELSE IF raw = <<"f", "a", "l", "s", "e">> THEN val = [t |-> "boolean", b |-> FALSE]
    ELSE IF raw # <<>> /\ \A i \in 1..Len(raw) : raw[i] \in Digits
    THEN val.t = "number" /\ val.fp = <<>> /\ NatToString(val.ip) = NatToString(DecimalValue(raw))
    ELSE IF \E d \in 2..(Len(raw) - 1) :
                /\ raw[d] = "."
                /\ \A i \in (1..Len(raw)) \ {d} : raw[i] \in Digits
    THEN LET d == CHOOSE d \in 1..Len(raw) : raw[d] = "."
         IN  /\ val.t = "number"
             /\ val.ip = DecimalValue(SubSeq(raw, 1, d - 1))
             /\ \E z \in 0..Len(raw) :
                    SubSeq(raw, d + 1, Len(raw)) = val.fp \o [i \in 1..z |-> "0"]
             /\ (val.fp = <<>> \/ val.fp[Len(val.fp)] # "0")
    ELSE val.t = "string"

ThmC10 ==
    (FMParsed /\ HasBlock(FMLines)) =>
        LET block == SubSeq(FMLines, 2, ClosingLine(FMLines) - 1)
            K == {i \in 1..Len(block) : IsKeyLine(block[i])}
        IN  /\ ObjKeys(fmOut.frontmatter) = {KeyOf(block[i]) : i \in K}
            /\ \A i \in K :
                   (\A j \in K : j > i => KeyOf(block[j]) # KeyOf(block[i]))
                       => TypeMatches(ObjGet(fmOut.frontmatter, KeyOf(block[i])),
                                      RawValueOf(block[i]))

\* a digit-dot-digit value that was parsed to a number with a fraction, next to
\* nothing else in the block
WitC10 ==
    /\ fmPc = "parsed"
    /\ HasBlock(FMLines)
    /\ \E i \in 1..Len(fmOut.frontmatter) :
           /\ fmOut.frontmatter[i].value.t = "number"
           /\ fmOut.frontmatter[i].value.fp # <<>>

\* C2: a content that starts with a well-formed metadata block (key: value lines
\* only) is reproduced by parse-then-serialize, up to the order of the metadata
\* lines and the whitespace inside the block.
WellFormedBlock(ls) ==
    /\ HasBlock(ls)
    /\ \A i \in 2..(ClosingLine(ls) - 1) : IsKeyLine(ls[i])

BlockCount(ls, l) ==
    Cardinality({i \in 2..(ClosingLine(ls) - 1) : NoWS(ls[i]) = l})

SameUpToOrderAndWhitespace(a, b) ==
    LET la == SplitLines(a)
        lb == SplitLines(b)
    IN  /\ HasBlock(la)
        /\ HasBlock(lb)
        /\ \A l \in {NoWS(la[i]) : i \in 2..(ClosingLine(la) - 1)}
                 \cup {NoWS(lb[i]) : i \in 2..(ClosingLine(lb) - 1)} :
               l # <<>> => BlockCount(la, l) = BlockCount(lb, l)
        /\ SubSeq(la, ClosingLine(la) + 1, Len(la))
               = SubSeq(lb, ClosingLine(lb) + 1, Len(lb))

CexC2 ==
    (fmPc = "generated" /\ WellFormedBlock(FMLines))
        => SameUpToOrderAndWhitespace(fmRule, fmIn)

\* the quote rule as claimed: a value that begins and ends with the same quote
\* character loses its first and last character (a lone quote is both), every
\* other value is kept
StripMatchingPair(raw) ==
    IF raw # <<>> /\ raw[1] \in {DQ, SQ} /\ raw[Len(raw)] = raw[1]
    THEN SubSeq(raw, 2, Len(raw) - 1)
    ELSE raw

IsStringRaw(raw) ==
    /\ raw # <<"t", "r", "u", "e">>
    /\ raw # <<"f", "a", "l", "s", "e">>
    /\ ~IsAllDigits(raw)
    /\ ~IsDigitDotDigit(raw)

\* C11: a string-typed metadata value loses its first and last character exactly
\* when it begins and ends with the same quote character; a quote on one side
\* only, or different quotes on the two sides, leave the value unchanged.
CexC11 ==
    (FMParsed /\ HasBlock(FMLines)) =>
        LET block == SubSeq(FMLines, 2, ClosingLine(FMLines) - 1)
            K == {i \in 1..Len(block) : IsKeyLine(block[i])}
        IN  \A i \in K :
                (/\ \A j \in K : j > i => KeyOf(block[j]) # KeyOf(block[i])
                 /\ IsStringRaw(RawValueOf(block[i])))
                    => ObjGet(fmOut.frontmatter, KeyOf(block[i]))
                           = [t |-> "string", s |-> StripMatchingPair(RawValueOf(block[i]))]

(***************************************************************************)
(* Properties of generation.                                               *)
(***************************************************************************)
Generated == lastOp = "runGeneration" /\ outcome = "ok"

\* t is s without the whitespace at its two ends
IsTrimOf(t, s) ==
    /\ t = <<>> \/ (t[1] \notin Whitespace /\ t[Len(t)] \notin Whitespace)
    /\ \E i \in 0..Len(s) :
           /\ i + Len(t) <= Len(s)
           /\ SubSeq(s, i + 1, i + Len(t)) = t
           /\ \A k \in (1..i) \cup ((i + Len(t) + 1)..Len(s)) : s[k] \in Whitespace

\* C12: for a config without rules and without commands the combined
\* instructions are the instructions with the whitespace at both ends removed,
\* and nothing else.
ThmC12 ==
    (Generated /\ genConfig.rules = <<>> /\ genConfig.commands = <<>>)
        => IsTrimOf(genFiles.claude, genConfig.instructions)

\* instructions " I\n" without rules and commands gave "I"
WitC12 ==
    /\ Generated
    /\ genConfig.instructions = InstructionsText
    /\ genConfig.rules = <<>>
    /\ genConfig.commands = <<>>
    /\ genFiles.claude = <<"I">>

\* C13: the CLAUDE.md, GEMINI.md and AGENTS.md payloads of generateFiles are the
\* same text, and after writeGeneratedFiles the three files hold that text.
ThmC13 ==
    Generated =>
        /\ genFiles.claude = genFiles.gemini
        /\ genFiles.gemini = genFiles.agents
        /\ disk.claude = TextFile(genFiles.claude)
        /\ disk.gemini = disk.claude
        /\ disk.agents = disk.claude

\* three instruction files that differed before generation hold the same text
\* (instructions, a rule and a command) after it
WitC13 ==
    /\ Generated
    /\ pre.claude # Absent /\ pre.gemini # Absent /\ pre.agents = Absent
    /\ pre.claude # pre.gemini
    /\ Len(genConfig.rules) > 0
    /\ Len(genConfig.commands) > 0
    /\ genConfig.instructions # <<>>
    /\ disk.claude = disk.gemini
    /\ disk.gemini = disk.agents
    /\ Len(disk.agents.text) > Len(genConfig.instructions)

(***************************************************************************)
(* Properties of the merge with failing sources, and of the two            *)
(* conversions taken one at a time.                                        *)
(***************************************************************************)
SourceFile(i) ==
    CASE i = 1 -> mcpDisk.mcp
      [] i = 2 -> mcpDisk.geminiSettings
      [] i = 3 -> mcpDisk.opencode

FailingSource(i) == SourceFile(i).kind \in {"absent", "malformed"}

\* the source files with file i taken away
WithoutSource(i) ==
    [mcp |-> IF i = 1 THEN Absent ELSE mcpDisk.mcp,
     geminiSettings |-> IF i = 2 THEN Absent ELSE mcpDisk.geminiSettings,
     opencode |-> IF i = 3 THEN Absent ELSE mcpDisk.opencode]

\* C14: a source that is absent or does not parse gives no entry to the merged
\* mapping and none to the duplicates list; the merge is the merge of the other
\* sources, as if the failing one were absent.
ThmC14 ==
    mcpPc = "extracted" =>
        \A i \in 1..3 :
            FailingSource(i) =>
                LET others == (1..3) \ {i}
                    names == UNION {DOMAIN MergeSources[j] : j \in others}
                    w == WithoutSource(i)
                IN  /\ DOMAIN mcpOut.merged.mcpServers = names
                    /\ \A n \in names :
                           LET in == {j \in others : n \in DOMAIN MergeSources[j]}
                               last == CHOOSE j \in in : \A k \in in : k <= j
                           IN  mcpOut.merged.mcpServers[n] = MergeSources[last][n]
                    /\ \A k \in 1..Len(mcpOut.duplicates) : mcpOut.duplicates[k] \in names
                    /\ mcpOut = extractAllMCPConfigs(w.mcp, w.geminiSettings, w.opencode)

\* .mcp.json does not parse, .gemini/settings.json lacks, and the servers of
\* opencode.json are merged all the same
WitC14 ==
    /\ mcpPc = "extracted"
    /\ mcpDisk.mcp = Malformed
    /\ mcpDisk.geminiSettings = Absent
    /\ mcpDisk.opencode.kind = "json"
    /\ DOMAIN MergeSources[3] = Names
    /\ DOMAIN mcpOut.merged.mcpServers = Names
    /\ mcpOut.merged.mcpServers = MergeSources[3]

\* C15: the opencode record of a canonical server has the tag "local", the
\* command array made of the executable followed by the args in their order
\* (the executable alone without args), and an environment only when env is
\* there and not empty.
ThmC15 ==
    mcpPc = "generated" =>
        LET servers == mcpConfig.mcpServers
            records == mcpGen.opencode.mcp
        IN  /\ DOMAIN records = DOMAIN servers
            /\ \A n \in DOMAIN servers :
                   LET s == servers[n]
                       rec == records[n]
                       args == IF "args" \in DOMAIN s THEN s.args ELSE <<>>
                       hasEnv == "env" \in DOMAIN s /\ DOMAIN s.env # {}
                   IN  /\ rec.type = "local"
                       /\ Len(rec.command) = 1 + Len(args)
                       /\ rec.command[1] = s.command
                       /\ \A k \in 1..Len(args) : rec.command[k + 1] = args[k]
                       /\ ("environment" \in DOMAIN rec) <=> hasEnv
                       /\ hasEnv => rec.environment = s.env
                       /\ DOMAIN rec \subseteq {"type", "command", "environment"}

\* an sse server with two different args and an empty env became a local record
\* of three command elements without environment
WitC15 ==
    /\ mcpPc = "generated"
    /\ \E n \in DOMAIN mcpConfig.mcpServers :
           LET s == mcpConfig.mcpServers[n]
           IN  /\ "type" \in DOMAIN s /\ s.type = "sse"
               /\ "args" \in DOMAIN s /\ s.args = <<"b", "a">>
               /\ "env" \in DOMAIN s /\ DOMAIN s.env = {}
               /\ mcpGen.opencode.mcp[n] = [type |-> "local", command |-> <<"npx", "b", "a">>]

\* the records of opencode.json as read by the merge
OpenCodeRecords == SourceServers(mcpDisk.opencode, "mcp")

\* C16: a record of opencode.json comes back as a canonical server tagged
\* "stdio" when the record is tagged "local", with the first element of the
\* command array as executable (the empty string when the array is empty or
\* absent), the remaining elements in order as args, and the environment
\* mapping (the empty mapping when absent) as env.
ThmC16 ==
    mcpPc = "extracted" =>
        \A n \in DOMAIN OpenCodeRecords :
            LET rec == OpenCodeRecords[n]
                r == mcpOut.merged.mcpServers[n]
                arr == IF "command" \in DOMAIN rec THEN rec.command ELSE <<>>
            IN  /\ rec.type = "local" => r.type = "stdio"
                /\ r.command = (IF Len(arr) = 0 THEN "" ELSE arr[1])
                /\ Len(r.args) = (IF Len(arr) = 0 THEN 0 ELSE Len(arr) - 1)
                /\ \A k \in 1..Len(r.args) : r.args[k] = arr[k + 1]
                /\ IF "environment" \in DOMAIN rec
                   THEN r.env = rec.environment
                   ELSE DOMAIN r.env = {}
                /\ DOMAIN r = {"type", "command", "args", "env"}

\* opencode.json held a record with an empty command array and one with an
\* executable, an argument and an environment
WitC16 ==
    /\ mcpPc = "extracted"
    /\ mcpConfig.mcpServers = <<>>
    /\ \E n, m \in DOMAIN OpenCodeRecords :
           /\ OpenCodeRecords[n] = [type |-> "local", command |-> <<>>]
           /\ mcpOut.merged.mcpServers[n] =
                  [type |-> "stdio", command |-> "", args |-> <<>>, env |-> <<>>]
           /\ OpenCodeRecords[m] = OpenCodeC
           /\ mcpOut.merged.mcpServers[m] =
                  [type |-> "stdio", command |-> "bun", args |-> <<"p.ts">>,
                   env |-> [K |-> "v"]]

(***************************************************************************)
(* Properties of migration.                                                *)
(***************************************************************************)
\* runMigration or runInit migrated the provider files found
Migrated ==
    /\ lastOp \in {"runMigration", "runInit"}
    /\ outcome = "ok"
    /\ ~pre.aiDir
    /\ ~NoProviderArtifact(pre)

\* the texts of the instruction files present before, in the order CLAUDE.md,
\* GEMINI.md, AGENTS.md
PresentInstructions ==
    LET present == SelectSeq(<<pre.claude, pre.gemini, pre.agents>>, LAMBDA f : Exists(f))
    IN  [i \in 1..Len(present) |-> present[i].text]

RenameMdcToMd(n) == SubSeq(n, 1, Len(n) - Len(ExtMdc)) \o ExtMd

\* C18: every .cursor/rules/*.mdc file is copied verbatim to .ai/rules under its
\* name with the extension .mdc renamed to .md, and every .claude/commands/*.md
\* file verbatim to .ai/commands under its own name.
CexC18 ==
    Migrated =>
        /\ \A n \in DOMAIN pre.cursorRules :
               EndsWith(n, ExtMdc) =>
                   /\ RenameMdcToMd(n) \in DOMAIN disk.aiRules
                   /\ disk.aiRules[RenameMdcToMd(n)] = pre.cursorRules[n]
        /\ \A n \in DOMAIN pre.claudeCommands :
               EndsWith(n, ExtMd) =>
                   /\ n \in DOMAIN disk.aiCommands
                   /\ disk.aiCommands[n] = pre.claudeCommands[n]

(***************************************************************************)
(* Properties of readAIConfig and of the way the operations end.           *)
(***************************************************************************)
\* runGeneration got as far as reading the configuration
ConfigRead == lastOp = "runGeneration" /\ pre.aiDir

EmptyServerList == [mcpServers |-> <<>>]

\* the directory read, with one of the four parts of .ai missing or unreadable
FailingReads ==
    { [part |-> "instructions", dir |-> [pre EXCEPT !.aiInstructions = Absent]],
      [part |-> "rules", dir |-> [pre EXCEPT !.aiRulesDir = FALSE, !.aiRules = <<>>]],
      [part |-> "commands", dir |-> [pre EXCEPT !.aiCommandsDir = FALSE, !.aiCommands = <<>>]],
      [part |-> "mcp", dir |-> [pre EXCEPT !.aiMcp = Absent]],
      [part |-> "mcp", dir |-> [pre EXCEPT !.aiMcp = Malformed]] }

\* C19: readAIConfig gives the empty string for missing instructions, an empty
\* sequence for a missing rules or commands directory and the empty server list
\* for a missing or malformed mcp.json, and what it reads for one of the four
\* parts does not depend on the state of the other three.
ThmC19 ==
    ConfigRead =>
        /\ genConfig.instructions =
               (IF pre.aiInstructions = Absent THEN <<>> ELSE pre.aiInstructions.text)
        /\ ~pre.aiRulesDir => genConfig.rules = <<>>
        /\ ~pre.aiCommandsDir => genConfig.commands = <<>>
        /\ pre.aiMcp \in {Absent, Malformed} => genConfig.mcp = EmptyServerList
        /\ pre.aiMcp.kind = "json" => genConfig.mcp = pre.aiMcp.value
        /\ \A f \in FailingReads :
               LET other == readAIConfig(f.dir)
               IN  /\ f.part # "instructions" => other.instructions = genConfig.instructions
                   /\ f.part # "rules" => other.rules = genConfig.rules
                   /\ f.part # "commands" => other.commands = genConfig.commands
                   /\ f.part # "mcp" => other.mcp = genConfig.mcp

\* instructions and a command were read next to a missing rules directory and
\* an mcp.json that does not parse
WitC19 ==
    /\ ConfigRead
    /\ pre.aiMcp = Malformed
    /\ ~pre.aiRulesDir
    /\ genConfig.instructions = InstructionsText
    /\ genConfig.rules = <<>>
    /\ Len(genConfig.commands) = 2
    /\ \E k \in 1..2 : genConfig.commands[k] = <<"c">>
    /\ genConfig.mcp = EmptyServerList

\* the three fatal conditions: no .ai at generation, .ai present at migration,
\* nothing to migrate
FatalCondition ==
    \/ lastOp = "runGeneration" /\ ~pre.aiDir
    \/ lastOp = "runMigration" /\ pre.aiDir
    \/ lastOp = "runMigration" /\ ~pre.aiDir /\ NoProviderArtifact(pre)

\* C20: runGeneration, runMigration and runInit raise only for the three fatal
\* conditions; whatever else the .ai and provider files hold (missing, empty,
\* malformed, JSON of another shape), they run to completion.
CexC20 ==
    lastOp \in {"runGeneration", "runMigration", "runInit"} =>
        (outcome # "ok" => FatalCondition)

(***************************************************************************)
(* Properties of the cursor rules and of the combined instructions.        *)
(***************************************************************************)
\* the name with its extension .md replaced by .mdc
RenameMdToMdc(n) == SubSeq(n, 1, Len(n) - Len(ExtMd)) \o ExtMdc

\* the marker block of a rule: a marker line, one "key: value" line per entry in
\* the order of the entries, a marker line
MetadataBlock(frontmatter) ==
    Marker \o <<NL>> \o
    Flatten([i \in 1..Len(frontmatter) |-> FrontmatterLine(frontmatter[i]) \o <<NL>>]) \o
    Marker \o <<NL>>

\* C21: generateFiles gives one cursor rule per rule of the config, named as the
\* rule with the extension .md replaced by .mdc, holding the metadata block
\* followed by the body, and the body alone when the metadata is empty.
CexC21 ==
    Generated =>
        /\ Cardinality(DOMAIN genFiles.cursorRules) = Len(genConfig.rules)
        /\ \A i \in 1..Len(genConfig.rules) :
               LET rule == genConfig.rules[i]
                   name == RenameMdToMdc(rule.filename)
               IN  /\ name \in DOMAIN genFiles.cursorRules
                   /\ genFiles.cursorRules[name] =
                          (IF rule.frontmatter = EmptyObj
                           THEN rule.content
                           ELSE MetadataBlock(rule.frontmatter) \o rule.content)

(***************************************************************************)
(* Properties of sequences of operations.                                  *)
(***************************************************************************)
\* what is under .ai
AiPart(d) ==
    [aiDir |-> d.aiDir, aiRulesDir |-> d.aiRulesDir, aiCommandsDir |-> d.aiCommandsDir,
     aiInstructions |-> d.aiInstructions, aiRules |-> d.aiRules,
     aiCommands |-> d.aiCommands, aiMcp |-> d.aiMcp]

\* what is outside .ai
ProviderPart(d) ==
    [claude |-> d.claude, gemini |-> d.gemini, agents |-> d.agents, mcp |-> d.mcp,
     geminiDir |-> d.geminiDir, geminiSettings |-> d.geminiSettings,
     opencode |-> d.opencode,
     cursorRulesDir |-> d.cursorRulesDir, cursorRules |-> d.cursorRules,
     claudeCommandsDir |-> d.claudeCommandsDir, claudeCommands |-> d.claudeCommands]

\* C22: runGeneration leaves everything under .ai as it was, and a runGeneration
\* that follows a completed runGeneration leaves every provider file with the
\* content the first one wrote.
ThmC22 ==
    [][lastOp' = "runGeneration" =>
           /\ AiPart(disk') = AiPart(disk)
           /\ Generated => (outcome' = "ok" /\ disk' = disk)]_vars

\* a second runGeneration ran over the files of the first, rules and commands
\* included
WitC22 ==
    /\ Generated
    /\ pre = disk
    /\ Len(genConfig.rules) = 2
    /\ Len(genConfig.commands) = 2
    /\ disk.claude = TextFile(genFiles.claude)
    /\ Len(disk.claude.text) > 1

\* the directory the other entry point leaves when started in the same place
OtherEntryPoint ==
    IF lastOp = "runMigration" THEN runInit(pre).disk ELSE runMigration(pre).disk

\* the server names of the three source files before the migration
MergedNames ==
    DOMAIN SourceServers(pre.mcp, "mcpServers")
        \cup DOMAIN SourceServers(pre.geminiSettings, "mcpServers")
        \cup DOMAIN SourceServers(pre.opencode, "mcp")

\* C23 as claimed: without .ai and with a provider artifact detected,
\* runMigration and runInit leave the same files with the same contents under
\* .ai.
CexC23 ==
    Migrated => AiPart(disk) = AiPart(OtherEntryPoint)

\* C23 as amended: they leave the same files with the same contents under .ai
\* except for .ai/mcp.json when the merge yields no server, which runInit writes
\* with an empty server list and runMigration does not write.
ThmC23 ==
    Migrated =>
        /\ [AiPart(disk) EXCEPT !.aiMcp = Absent]
               = [AiPart(OtherEntryPoint) EXCEPT !.aiMcp = Absent]
        /\ MergedNames # {} => disk.aiMcp = OtherEntryPoint.aiMcp
        /\ MergedNames = {} =>
               /\ runMigration(pre).disk.aiMcp = Absent
               /\ runInit(pre).disk.aiMcp = JSONFile(EmptyServerList)
               /\ disk.aiMcp = (IF lastOp = "runInit" THEN JSONFile(EmptyServerList) ELSE Absent)

\* runInit migrated instructions, a rule, a command and servers, as runMigration
\* does from the same directory
WitC23 ==
    /\ Migrated
    /\ lastOp = "runInit"
    /\ disk.aiInstructions # Absent
    /\ DOMAIN disk.aiRules = {RuleMd}
    /\ DOMAIN disk.aiCommands = {CmdMd}
    /\ MergedNames # {}
    /\ disk.aiMcp.kind = "json"
    /\ AiPart(disk) = AiPart(runMigration(pre).disk)

\* C24: with artifacts detected and no server merged, runMigration writes no
\* .ai/mcp.json and runInit writes one with the empty server list; with at
\* least one server merged both write the merged mapping.
ThmC24 ==
    Migrated =>
        IF MergedNames = {}
        THEN /\ lastOp = "runMigration" => disk.aiMcp = Absent
             /\ lastOp = "runInit" => disk.aiMcp = JSONFile(EmptyServerList)
        ELSE /\ disk.aiMcp.kind = "json"
             /\ DOMAIN disk.aiMcp.value = {"mcpServers"}
             /\ DOMAIN disk.aiMcp.value.mcpServers = MergedNames
             /\ disk.aiMcp.value =
                    extractAllMCPConfigs(pre.mcp, pre.geminiSettings, pre.opencode).merged

\* runMigration found a .gemini/settings.json without servers and instructions,
\* and wrote the instructions and no .ai/mcp.json
WitC24 ==
    /\ Migrated
    /\ lastOp = "runMigration"
    /\ pre.geminiSettings = JSONFile([theme |-> "dark"])
    /\ MergedNames = {}
    /\ disk.aiInstructions # Absent
    /\ disk.aiMcp = Absent

\* the rules part of the combined document: a blank-line separator, the bodies
\* in stored order with a blank-line separator between them and after the last
RulesSection(rules) ==
    IF rules = <<>> THEN <<>>
    ELSE <<NL, NL>> \o Join([i \in 1..Len(rules) |-> rules[i].content], <<NL, NL>>)
             \o <<NL, NL>>

SectionHeader ==
    <<"#", "#", " ", "A", "v", "a", "i", "l", "a", "b", "l", "e", " ",
      "C", "o", "m", "m", "a", "n", "d", "s">>

\* the commands part: the section header as a paragraph, one bullet line per name
CommandsSection(commands) ==
    IF commands = <<>> THEN <<>>
    ELSE <<NL>> \o SectionHeader \o <<NL, NL>> \o
         Join([i \in 1..Len(commands) |-> <<"-", " ">> \o commands[i]], <<NL>>) \o <<NL>>

\* C25: the combined instructions are the trimmed concatenation of the
\* instructions, the rules part when there are rules (every body without its
\* metadata, in stored order) and the commands part if and only if there are
\* commands (the header "## Available Commands", one bullet per name in order).
ThmC25 ==
    Generated =>
        IsTrimOf(genFiles.claude,
                 genConfig.instructions \o RulesSection(genConfig.rules)
                     \o CommandsSection(genConfig.commands))

\* two rules and two commands: the document starts with the instructions
\* (" I\n" trimmed at the start), holds the two bodies in order and ends with
\* the second bullet
WitC25 ==
    /\ Generated
    /\ genConfig.instructions = InstructionsText
    /\ Len(genConfig.rules) = 2
    /\ genConfig.commands = <<<<"c">>, <<"d">>>>
    /\ SubSeq(genFiles.claude, 1, 8)
           = <<"I", NL, NL, NL>> \o genConfig.rules[1].content \o <<NL, NL>>
                 \o genConfig.rules[2].content
    /\ genConfig.rules[1].content # genConfig.rules[2].content
    /\ SubSeq(genFiles.claude, Len(genFiles.claude) - 6, Len(genFiles.claude))
           = <<"-", " ", "c", NL, "-", " ", "d">>

\* the .mdc files of .cursor/rules before the migration
MigratedCursorRules ==
    IF pre.cursorRulesDir THEN {n \in DOMAIN pre.cursorRules : EndsWith(n, ExtMdc)} ELSE {}

\* text t occurs in text s
Occurs(t, s) == \E i \in 1..(Len(s) + 1) : StartsWithAt(s, t, i)

\* C26: after a successful runMigration .ai exists; readAIConfig on it yields
\* one rule per migrated cursor rule, with that rule's body, and the merged
\* servers; generateFiles on that config yields combined instructions that
\* contain the migrated instructions and every migrated rule body; a following
\* runGeneration does not raise the missing-directory error.
CexC26 ==
    (lastOp = "runMigration" /\ outcome = "ok") =>
        LET config == readAIConfig(disk)
            generated == generateFiles(config)
            body(n) == parseFrontmatter(pre.cursorRules[n]).content
        IN  /\ disk.aiDir
            /\ Len(config.rules) = Cardinality(MigratedCursorRules)
            /\ \A n \in MigratedCursorRules :
                   \E i \in 1..Len(config.rules) : config.rules[i].content = body(n)
            /\ config.mcp.mcpServers =
                   extractAllMCPConfigs(pre.mcp, pre.geminiSettings,
                                        pre.opencode).merged.mcpServers
            /\ ~generated.raised
            /\ Occurs(Trim(config.instructions), generated.claude)
            /\ Exists(disk.aiInstructions) =>
                   config.instructions = disk.aiInstructions.text
            /\ \A n \in MigratedCursorRules : Occurs(Trim(body(n)), generated.claude)
            /\ runGeneration(disk).outcome # AiNotFound

\* the names of the files of a directory that end with an extension
FilesWithExt(dir, ext) == {n \in DOMAIN dir : EndsWith(n, ext)}

\* C27: after runGeneration completes, the .mdc files of .cursor/rules are
\* exactly the rule files of .ai/rules with the extension changed, whatever
\* .cursor/rules held before.
CexC27 ==
    Generated =>
        FilesWithExt(disk.cursorRules, ExtMdc)
            = {RenameMdToMdc(n) : n \in FilesWithExt(disk.aiRules, ExtMd)}

(***************************************************************************)
(* Properties of the server list across generation and migration.          *)
(***************************************************************************)
\* the server list was generated, written and merged back
RoundTripDone == mcpPc = "extracted" /\ mcpGen # NoGen

ArgsOf(s) == IF HasKey(s, "args") THEN s.args ELSE <<>>

\* absent and empty are the same env
EnvOf(s) == IF HasKey(s, "env") THEN s.env ELSE <<>>

SameExecutableArgsEnv(s, r) ==
    /\ r.command = s.command
    /\ ArgsOf(r) = ArgsOf(s)
    /\ EnvOf(r) = EnvOf(s)

\* C28 as claimed: the merged mapping has exactly the names of the canonical
\* list and, for each name, the same executable, args, env (absent and empty
\* equal) and transport tag (a server without a tag is a stdio server).
CexC28 ==
    RoundTripDone =>
        /\ DOMAIN mcpOut.merged.mcpServers = DOMAIN mcpConfig.mcpServers
        /\ \A n \in DOMAIN mcpConfig.mcpServers :
               LET s == mcpConfig.mcpServers[n]
                   r == mcpOut.merged.mcpServers[n]
               IN  /\ SameExecutableArgsEnv(s, r)
                   /\ HasKey(r, "type")
                   /\ r.type = (IF HasKey(s, "type") THEN s.type ELSE "stdio")

\* C28 as amended: exactly the names of the canonical list and, for each name,
\* the same executable, args and env, and the transport tag "stdio" whatever
\* the tag in the canonical list.
ThmC28 ==
    RoundTripDone =>
        /\ DOMAIN mcpOut.merged.mcpServers = DOMAIN mcpConfig.mcpServers
        /\ \A n \in DOMAIN mcpConfig.mcpServers :
               LET s == mcpConfig.mcpServers[n]
                   r == mcpOut.merged.mcpServers[n]
               IN  /\ SameExecutableArgsEnv(s, r)
                   /\ HasKey(r, "type")
                   /\ r.type = "stdio"

\* two servers, one of them with an env entry, were written to the three files
\* and merged back
WitC28 ==
    /\ RoundTripDone
    /\ Cardinality(DOMAIN mcpConfig.mcpServers) = 2
    /\ \E n \in DOMAIN mcpConfig.mcpServers :
           /\ mcpConfig.mcpServers[n] = ServerB
           /\ mcpOut.merged.mcpServers[n].env = [K |-> "v"]
    /\ \E n \in DOMAIN mcpConfig.mcpServers :
           /\ mcpConfig.mcpServers[n] = ServerA
           /\ mcpOut.merged.mcpServers[n] =
                  [type |-> "stdio", command |-> "npx", args |-> <<"a">>, env |-> <<>>]
    /\ DOMAIN mcpGen.opencode.mcp = DOMAIN mcpConfig.mcpServers

\* C29: a name is in the duplicates list only if it occurs in at least two of
\* the sources that were read, and the names of the merged mapping are exactly
\* the names of those sources.
CexC29 ==
    mcpPc = "extracted" =>
        /\ \A i \in 1..Len(mcpOut.duplicates) :
               Cardinality(SourcesWith(mcpOut.duplicates[i])) >= 2
        /\ DOMAIN mcpOut.merged.mcpServers = {n \in Names : SourcesWith(n) # {}}

\* C30: in every run of runMigration or runInit, completed or raising, every
\* file outside .ai exists afterwards exactly if it existed before, with the
\* same content.
ThmC30 ==
    lastOp \in {"runMigration", "runInit"} => ProviderPart(disk) = ProviderPart(pre)

\* runMigration copied instructions, a rule, a command and servers into .ai and
\* left their sources as they were
WitC30 ==
    /\ lastOp = "runMigration"
    /\ outcome = "ok"
    /\ Exists(pre.claude)
    /\ RuleMdc \in DOMAIN pre.cursorRules
    /\ CmdMd \in DOMAIN pre.claudeCommands
    /\ pre.mcp.kind = "json"
    /\ Exists(disk.aiInstructions)
    /\ RuleMd \in DOMAIN disk.aiRules
    /\ CmdMd \in DOMAIN disk.aiCommands
    /\ disk.aiMcp.kind = "json"
    /\ ProviderPart(disk) = ProviderPart(pre)

====
